---- MODULE Spec2Model ----
(***************************************************************************)
(* Model of the artifact normalization pipeline of the investigator        *)
(* repository: the CSV-based parsers (MFTECmd, AmcacheParser, LECmd,       *)
(* RECmd) and the EVTX parser.  Strings are TLA+ strings handled one       *)
(* character at a time, so that trimming, replacing, parsing, formatting   *)
(* and comparing are computed the way the Python code computes them.       *)
(***************************************************************************)
EXTENDS Integers, Sequences, FiniteSets, TLC

VARIABLES
    parser,     \* which parser class runs parse_file
    platform,   \* the platform argument of parse_file: "elk" or "timesketch"
    pc,         \* position of parse_file: "idle", "start", "reading", "done",
                \* "raised", or "blocked" in a subprocess.run that never returns
    nread,      \* rows / output lines consumed so far by the reading loop
    entries,    \* the list `entries` (`events` in the EVTX parser)
    lastrow,    \* the raw row (or the JSON value) read by the last iteration
    lastdoc,    \* what the last iteration did with it: <<"doc", d>>, <<"skip">>
    clock,      \* the value datetime.now() returned in the last iteration
    output,     \* the lines written to output_json_path; <<"absent">> if none
    result,     \* the value parse_file returned: "none", "true", "false"
    nkey,       \* key normalization alone: the current column name
    nprev,      \* the column name before the last normalization
    napplied,   \* how many times the normalization was applied
    fin,        \* flatten_dict alone: the nested mapping given to it
    fout,       \* the flat mapping it returned
    fpc,        \* "idle", "input", "flat"
    tool,       \* how the invocation of the external tool ended; "none" before
    tempdir,    \* the directory for the tool's CSVs: "none", "exists", "removed"
    files,      \* a run of main: the artifact files found, by their type
    fnext,      \* the index in `files` of the file the per-file loops reach next
    rpc,        \* position of main: "idle", "loop", "aborted", "finished"
    success_count,  \* the files for which parse_file returned True
    temp_registry,  \* ./temp_registry: the files whose CSV lies in it
    regnext,        \* the number of the registry file parse_file is given next
    regread,        \* the files whose CSV rows the last parse_file read
    regtool,        \* how RECmd ended in the last parse_file
    regresult,      \* what the last parse_file of RegistryParser returned
    artifact,       \* a parsing section of main: the artifact type it handles
    folder,         \* the paths of the files under the folder of that type
    found,          \* the list of files the section built (evtx_files, ...)
    onext,          \* the index in `found` of the file the loop reaches next
    written,        \* the output paths parse_file has written, in order
    opc,            \* position of the section: "idle", "search", "loop", "end"
    case_folders,   \* the case folders that exist, as <<base folder, case name>>
    log_files,      \* the names of the files in the working directory
    indices,        \* the names of the indices Elasticsearch holds
    index_patterns, \* the titles of the index patterns Kibana holds
    command,        \* the last command line: which option main acted on
    dry_run,        \* args.dry_run of that command line
    target,         \* the case name given to that command
    deleted,        \* what that command deleted, as <<kind, name>>
    exit_status,    \* the status main gave sys.exit
    max_attempts,   \* safe_rmtree: its argument max_attempts
    attempt,        \* the loop variable `attempt`
    temp_exists,    \* whether the directory `path` exists
    outcome,        \* the last attempt: "none", "absent", "removed", "raised"
    failed_attempts,\* how many attempts raised PermissionError or OSError
    sleeps,         \* how many times time.sleep(0.5) was called
    rmtree_result,  \* what safe_rmtree returned: "none", "true", "false"
    pf_return,      \* the value of the return statement parse_file executed
    pf_result,      \* what the caller of parse_file received; "none" before
    disk,           \* the paths of the files that exist
    source_dir,     \* the source_dir argument of organize_files
    copy_mode,      \* the copy_mode argument of organize_files
    files_by_type,  \* what find_files_recursive returned: type -> set of paths
    pending,        \* the found files not organized yet, in loop order
    disk_before,    \* the paths that existed when organize_files was called
    total_organized,\* the counter of organize_files
    clobbered,      \* TRUE once a copy or move went to a path that existed
    orgpc,          \* position of organize_files: "idle", "start", "loop", "done"
    org_result      \* what organize_files returned: "none", "true", "false"

\* The variables of parse_file, of the two pure functions and of main's loops.
coreVars == <<parser, platform, pc, nread, entries, lastrow, lastdoc, clock,
              output, result, nkey, nprev, napplied, fin, fout, fpc,
              tool, tempdir, files, fnext, rpc, success_count>>

\* The variables of consecutive calls of RegistryParser.parse_file.
registryVars == <<temp_registry, regnext, regread, regtool, regresult>>

\* The variables of one parsing section of main, with its file names.
outputVars == <<artifact, folder, found, onext, written, opc>>

\* The variables of the cleanup and ingestion commands of main.
cleanupVars == <<case_folders, log_files, indices, index_patterns, command,
                 dry_run, target, deleted, exit_status>>

\* The variables of safe_rmtree in the 'finally' of parse_file.
rmtreeVars == <<max_attempts, attempt, temp_exists, outcome, failed_attempts,
                sleeps, rmtree_result, pf_return, pf_result>>

\* The variables of FileOrganizer.organize_files.
organizerVars == <<disk, source_dir, copy_mode, files_by_type, pending, disk_before,
                   total_organized, clobbered, orgpc, org_result>>

\* The variables of the parts modelled on their own.
utilVars == <<registryVars, outputVars, cleanupVars, rmtreeVars, organizerVars>>

vars == <<coreVars, utilVars>>

(***************************************************************************)
(* Characters and strings                                                  *)
(***************************************************************************)

\* The i-th character of s, as a string of length one.
Ch(s, i) == SubSeq(s, i, i)

\* s[m-1:n] of Python: the characters m..n of s that exist.
Slice(s, m, n) ==
    SubSeq(s, IF m < 1 THEN 1 ELSE m, IF n > Len(s) THEN Len(s) ELSE n)

\* The characters the model uses, in ascending code point order (the order
\* in which Python compares str values).
CodeOrder == "\t\n #()+-./0123456789:@ABCDEFGHIJKLMNOPQRSTUVWXYZ\\_abcdefghijklmnopqrstuvwxyz"

Ord(c) == CHOOSE i \in 1..Len(CodeOrder) : Ch(CodeOrder, i) = c

UpperChars == "ABCDEFGHIJKLMNOPQRSTUVWXYZ"
LowerChars == "abcdefghijklmnopqrstuvwxyz"

\* str.lower() on one character.
LowerCh(c) ==
    IF \E i \in 1..Len(UpperChars) : Ch(UpperChars, i) = c
    THEN Ch(LowerChars, CHOOSE i \in 1..Len(UpperChars) : Ch(UpperChars, i) = c)
    ELSE c

\* The characters str.strip() removes.
IsSpace(c) == c \in {" ", "\t", "\n"}

RECURSIVE LStrip(_)
LStrip(s) ==
    IF Len(s) > 0 /\ IsSpace(Ch(s, 1)) THEN LStrip(SubSeq(s, 2, Len(s))) ELSE s

RECURSIVE RStrip(_)
RStrip(s) ==
    IF Len(s) > 0 /\ IsSpace(Ch(s, Len(s))) THEN RStrip(SubSeq(s, 1, Len(s) - 1)) ELSE s

\* str.strip()
Strip(s) == RStrip(LStrip(s))

\* str.replace(c, r) for a single character c.
RECURSIVE ReplaceCh(_, _, _)
ReplaceCh(s, c, r) ==
    IF Len(s) = 0 THEN ""
    ELSE (IF Ch(s, 1) = c THEN r ELSE Ch(s, 1)) \o ReplaceCh(SubSeq(s, 2, Len(s)), c, r)

\* str.lower()
RECURSIVE Lower(_)
Lower(s) ==
    IF Len(s) = 0 THEN "" ELSE LowerCh(Ch(s, 1)) \o Lower(SubSeq(s, 2, Len(s)))

\* s.startswith(p)
StartsWith(s, p) == Len(s) >= Len(p) /\ SubSeq(s, 1, Len(p)) = p

\* The position of the first occurrence of p in s at or after i, 0 if none.
RECURSIVE FindFrom(_, _, _)
FindFrom(s, p, i) ==
    IF i + Len(p) - 1 > Len(s) THEN 0
    ELSE IF SubSeq(s, i, i + Len(p) - 1) = p THEN i
    ELSE FindFrom(s, p, i + 1)

\* p in s
Contains(s, p) == FindFrom(s, p, 1) > 0

\* str.replace(p, r) for a non-empty pattern p: leftmost, non-overlapping.
RECURSIVE Replace(_, _, _)
Replace(s, p, r) ==
    LET i == FindFrom(s, p, 1) IN
    IF i = 0 THEN s
    ELSE SubSeq(s, 1, i - 1) \o r \o Replace(SubSeq(s, i + Len(p), Len(s)), p, r)

\* a < b and a <= b as Python compares two str values.
RECURSIVE StrLt(_, _)
StrLt(a, b) ==
    IF Len(b) = 0 THEN FALSE
    ELSE IF Len(a) = 0 THEN TRUE
    ELSE IF Ch(a, 1) = Ch(b, 1) THEN StrLt(SubSeq(a, 2, Len(a)), SubSeq(b, 2, Len(b)))
    ELSE Ord(Ch(a, 1)) < Ord(Ch(b, 1))

StrLe(a, b) == a = b \/ StrLt(a, b)

(***************************************************************************)
(* Field sanitizer: the key normalization of the CSV parsers               *)
(***************************************************************************)

\* str(key).strip().replace(' ', '_').replace('/', '_').replace('\\', '_')
\*         .replace('(', '').replace(')', '').lower()
clean_key(key) ==
    Lower(ReplaceCh(ReplaceCh(ReplaceCh(ReplaceCh(ReplaceCh(
        Strip(key), " ", "_"), "/", "_"), "\\", "_"), "(", ""), ")", ""))

(***************************************************************************)
(* datetime: strptime, fromisoformat, isoformat                            *)
(***************************************************************************)

\* Optional values: <<>> is None, <<v>> is the value v.
None == <<>>
Some(v) == <<v>>

DigitChars == "0123456789"
IsDigit(c) == \E i \in 1..10 : Ch(DigitChars, i) = c
DigitVal(c) == (CHOOSE i \in 1..10 : Ch(DigitChars, i) = c) - 1
DigitCh(n) == Ch(DigitChars, n + 1)

\* int(s) for a string of decimal digits ("" gives 0).
RECURSIVE ToNum(_)
ToNum(s) ==
    IF Len(s) = 0 THEN 0
    ELSE 10 * ToNum(SubSeq(s, 1, Len(s) - 1)) + DigitVal(Ch(s, Len(s)))

\* The number of consecutive digits of s from position i on, at most max.
RECURSIVE CountDigits(_, _, _)
CountDigits(s, i, max) ==
    IF max = 0 \/ i > Len(s) \/ ~IsDigit(Ch(s, i)) THEN 0
    ELSE 1 + CountDigits(s, i + 1, max - 1)

\* The number of consecutive whitespace characters of s from position i on.
RECURSIVE CountSpaces(_, _)
CountSpaces(s, i) ==
    IF i > Len(s) \/ ~IsSpace(Ch(s, i)) THEN 0 ELSE 1 + CountSpaces(s, i + 1)

\* n written with exactly w decimal digits, zero padded ('%0wd').
RECURSIVE PadNum(_, _)
PadNum(n, w) ==
    IF w = 0 THEN "" ELSE PadNum(n \div 10, w - 1) \o DigitCh(n % 10)

\* str.ljust(w, '0')
RECURSIVE LJustZero(_, _)
LJustZero(s, w) == IF Len(s) >= w THEN s ELSE LJustZero(s \o "0", w)

IsLeap(y) == (y % 4 = 0 /\ y % 100 # 0) \/ y % 400 = 0

DaysInMonth(y, m) ==
    IF m = 2 THEN (IF IsLeap(y) THEN 29 ELSE 28)
    ELSE IF m \in {4, 6, 9, 11} THEN 30 ELSE 31

\* A datetime object; aware = FALSE is a naive datetime, off is the UTC
\* offset in minutes of an aware one.
DateTime(y, mo, d, h, mi, s, us, aware, off) ==
    [Y |-> y, mo |-> mo, d |-> d, H |-> h, M |-> mi, S |-> s, us |-> us,
     aware |-> aware, off |-> off]

\* The fields strptime collects; a field the format lacks keeps its default.
StrpDefaults ==
    [Y |-> 1900, mo |-> 1, d |-> 1, H |-> 0, M |-> 0, S |-> 0, us |-> 0,
     ampm |-> ""]

\* The value range each two-digit directive of _strptime's regex accepts.
DirLow(dir) == IF dir \in {"m", "d", "I"} THEN 1 ELSE 0
DirHigh(dir) ==
    CASE dir = "m" -> 12 [] dir = "d" -> 31 [] dir = "H" -> 23
      [] dir = "I" -> 12 [] dir = "M" -> 59 [] dir = "S" -> 61

\* _strptime's regular expression match of s from position i against the
\* format fmt from position j; acc holds the fields found so far.  None if
\* the string does not match or data remains unconverted.
RECURSIVE StrpMatch(_, _, _, _, _)
StrpMatch(s, i, fmt, j, acc) ==
    IF j > Len(fmt) THEN (IF i > Len(s) THEN Some(acc) ELSE None)
    ELSE IF Ch(fmt, j) = "%" THEN
        LET dir == Ch(fmt, j + 1) IN
        IF dir = "Y" THEN
            IF CountDigits(s, i, 4) = 4
            THEN StrpMatch(s, i + 4, fmt, j + 2,
                           [acc EXCEPT !.Y = ToNum(SubSeq(s, i, i + 3))])
            ELSE None
        ELSE IF dir = "f" THEN
            LET n == CountDigits(s, i, 6) IN
            IF n = 0 THEN None
            ELSE StrpMatch(s, i + n, fmt, j + 2,
                     [acc EXCEPT !.us = ToNum(LJustZero(SubSeq(s, i, i + n - 1), 6))])
        ELSE IF dir = "p" THEN
            LET w == Lower(Slice(s, i, i + 1)) IN
            IF i + 1 <= Len(s) /\ w \in {"am", "pm"}
            THEN StrpMatch(s, i + 2, fmt, j + 2, [acc EXCEPT !.ampm = w])
            ELSE None
        ELSE
            LET n == CountDigits(s, i, 2)
                v == ToNum(SubSeq(s, i, i + n - 1))
            IN  IF n = 0 \/ v < DirLow(dir) \/ v > DirHigh(dir) THEN None
                ELSE StrpMatch(s, i + n, fmt, j + 2,
                        CASE dir = "m" -> [acc EXCEPT !.mo = v]
                          [] dir = "d" -> [acc EXCEPT !.d = v]
                          [] dir \in {"H", "I"} -> [acc EXCEPT !.H = v]
                          [] dir = "M" -> [acc EXCEPT !.M = v]
                          [] dir = "S" -> [acc EXCEPT !.S = v])
    ELSE IF Ch(fmt, j) = " " THEN
        LET n == CountSpaces(s, i) IN
        IF n = 0 THEN None ELSE StrpMatch(s, i + n, fmt, j + 1, acc)
    ELSE IF i <= Len(s) /\ Ch(s, i) = Ch(fmt, j)
        THEN StrpMatch(s, i + 1, fmt, j + 1, acc)
        ELSE None

\* datetime.strptime(s, fmt): None stands for the ValueError it raises.
strptime(s, fmt) ==
    LET Build(a, hour) ==
            IF a.Y < 1 \/ a.d > DaysInMonth(a.Y, a.mo) \/ a.S > 59 THEN None
            ELSE Some(DateTime(a.Y, a.mo, a.d, hour, a.M, a.S, a.us, FALSE, 0))
        Found(m) ==
            IF m = None THEN None
            ELSE Build(m[1],
                       IF ~Contains(fmt, "%I") THEN m[1].H
                       ELSE IF m[1].ampm = "pm"
                            THEN (IF m[1].H = 12 THEN 12 ELSE m[1].H + 12)
                       ELSE (IF m[1].H = 12 THEN 0 ELSE m[1].H))
    IN  Found(StrpMatch(s, 1, fmt, 1, StrpDefaults))

\* TRUE iff s has exactly the digits of the pattern at the places where the
\* pattern has a 'd' and the pattern's own character everywhere else.
RECURSIVE MatchesShape(_, _)
MatchesShape(s, shape) ==
    IF Len(s) # Len(shape) THEN FALSE
    ELSE IF Len(s) = 0 THEN TRUE
    ELSE /\ IF Ch(shape, 1) = "d" THEN IsDigit(Ch(s, 1)) ELSE Ch(s, 1) = Ch(shape, 1)
         /\ MatchesShape(SubSeq(s, 2, Len(s)), SubSeq(shape, 2, Len(shape)))

\* The time part 'HH[:MM[:SS[.fff[fff]]]]' of fromisoformat: the fields
\* <<H, M, S, us>>, or None.
IsoTime(t) ==
    LET InRange(h, m, sec, us) ==
            IF h > 23 \/ m > 59 \/ sec > 59 THEN None ELSE Some(<<h, m, sec, us>>)
        \* the two digits of t at position i, 0 when t ends before them
        Two(i) == IF i + 1 <= Len(t) THEN ToNum(SubSeq(t, i, i + 1)) ELSE 0
    IN  IF \/ MatchesShape(t, "dd") \/ MatchesShape(t, "dd:dd")
           \/ MatchesShape(t, "dd:dd:dd")
        THEN InRange(Two(1), Two(4), Two(7), 0)
        ELSE IF MatchesShape(t, "dd:dd:dd.ddd")
        THEN InRange(Two(1), Two(4), Two(7), 1000 * ToNum(SubSeq(t, 10, 12)))
        ELSE IF MatchesShape(t, "dd:dd:dd.dddddd")
        THEN InRange(Two(1), Two(4), Two(7), ToNum(SubSeq(t, 10, 15)))
        ELSE None

\* datetime.fromisoformat(s) on the formats every interpreter version
\* accepts, 'YYYY-MM-DD[*HH[:MM[:SS[.fff[fff]]]][+HH:MM]]'; None stands for
\* the ValueError it raises.
fromisoformat(s) ==
    IF Len(s) < 10 \/ ~MatchesShape(SubSeq(s, 1, 10), "dddd-dd-dd") THEN None
    ELSE
        LET rest == SubSeq(s, 12, Len(s))
            \* y, mo, d: the date; t: the time fields or None; aware, zoneOk,
            \* offH, offM, neg: the UTC offset
            Build(y, mo, d, t, aware, zoneOk, offH, offM, neg) ==
                IF y < 1 \/ mo < 1 \/ mo > 12 \/ d < 1 \/ d > DaysInMonth(y, mo)
                   \/ Len(s) = 11 \/ t = None \/ ~zoneOk \/ offH > 23 \/ offM > 59
                THEN None
                ELSE Some(DateTime(y, mo, d, t[1][1], t[1][2], t[1][3], t[1][4], aware,
                                   IF ~aware THEN 0
                                   ELSE (IF neg THEN -1 ELSE 1) * (60 * offH + offM)))
            \* sign: the position of the sign that starts the offset, 0 if none
            Split(sign, neg, tpart, zpart) ==
                Build(ToNum(SubSeq(s, 1, 4)), ToNum(SubSeq(s, 6, 7)),
                      ToNum(SubSeq(s, 9, 10)),
                      IF Len(s) = 10 THEN Some(<<0, 0, 0, 0>>) ELSE IsoTime(tpart),
                      sign > 0,
                      sign = 0 \/ MatchesShape(zpart, "dd:dd"),
                      IF Len(zpart) >= 2 THEN ToNum(SubSeq(zpart, 1, 2)) ELSE 0,
                      IF Len(zpart) >= 5 THEN ToNum(SubSeq(zpart, 4, 5)) ELSE 0,
                      neg)
            Signs(plus, minus) ==
                IF plus > 0
                THEN Split(plus, FALSE, SubSeq(rest, 1, plus - 1),
                           SubSeq(rest, plus + 1, Len(rest)))
                ELSE IF minus > 0
                THEN Split(minus, TRUE, SubSeq(rest, 1, minus - 1),
                           SubSeq(rest, minus + 1, Len(rest)))
                ELSE Split(0, FALSE, rest, "")
        IN  Signs(FindFrom(rest, "+", 1), FindFrom(rest, "-", 1))

\* datetime.isoformat(): the fraction is printed only when the microsecond
\* is not zero, the offset only for an aware datetime.
isoformat(dt) ==
    PadNum(dt.Y, 4) \o "-" \o PadNum(dt.mo, 2) \o "-" \o PadNum(dt.d, 2) \o "T"
    \o PadNum(dt.H, 2) \o ":" \o PadNum(dt.M, 2) \o ":" \o PadNum(dt.S, 2)
    \o (IF dt.us # 0 THEN "." \o PadNum(dt.us, 6) ELSE "")
    \o (IF ~dt.aware THEN ""
        ELSE (IF dt.off < 0 THEN "-" ELSE "+")
             \o PadNum((IF dt.off < 0 THEN -dt.off ELSE dt.off) \div 60, 2) \o ":"
             \o PadNum((IF dt.off < 0 THEN -dt.off ELSE dt.off) % 60, 2))

(***************************************************************************)
(* Timestamp parsers of the CSV-based parsers                              *)
(***************************************************************************)

\* s.count('.')
RECURSIVE CountCh(_, _)
CountCh(s, c) ==
    IF Len(s) = 0 THEN 0
    ELSE (IF Ch(s, 1) = c THEN 1 ELSE 0) + CountCh(SubSeq(s, 2, Len(s)), c)

\* A try block that returns a, and the except block that returns b when a
\* raised (None stands for the exception).
OrElse(a, b) == IF a # None THEN a ELSE b

\* dt.isoformat() + 'Z' of the datetime found, None if there is none.
IsoZ(dt) == IF dt = None THEN None ELSE Some(isoformat(dt[1]) \o "Z")

\* s.split('.')[0]
BeforeDot(s) ==
    LET i == FindFrom(s, ".", 1) IN IF i = 0 THEN s ELSE SubSeq(s, 1, i - 1)

\* The variant whose list lacks the spelling with seven sub-second digits.
MftSentinels_without_fraction == {"", "1601-01-01 00:00:00"}

\* The spellings of the 'never set' FILETIME epoch that parse_mft_timestamp
\* rejects before parsing.
MftSentinels == {"", "1601-01-01 00:00:00", "1601-01-01 00:00:00.0000000"}

\* The variant that pads the sub-second digits without cutting them.
pad_microseconds_no_cut(microseconds) == LJustZero(microseconds, 6)

\* microseconds[:6].ljust(6, '0')
pad_microseconds(microseconds) == LJustZero(Slice(microseconds, 1, 6), 6)

\* The datetime parse_mft_timestamp arrives at, None if every attempt fails.
\* The tuple unpacking of split('.') raises when there are two dots or more,
\* and then timestamp_str keeps its original value for the fallbacks.
mft_datetime(timestamp_str) ==
    LET \* the three attempts on the string the first try block leaves
        Attempts(dots, str1) ==
            OrElse(IF dots >= 2 THEN None
                   ELSE strptime(str1, "%Y-%m-%d %H:%M:%S.%f"),
                   OrElse(strptime(BeforeDot(str1), "%Y-%m-%d %H:%M:%S"),
                          fromisoformat(Replace(str1, "Z", "+00:00"))))
        \* base, microseconds = timestamp_str.split('.') at the dot at i
        Truncated(dots, i) ==
            Attempts(dots,
                     IF dots = 1
                     THEN SubSeq(timestamp_str, 1, i - 1) \o "."
                          \o pad_microseconds(SubSeq(timestamp_str, i + 1,
                                                      Len(timestamp_str)))
                     ELSE timestamp_str)
    IN  IF timestamp_str \in MftSentinels THEN None
        ELSE Truncated(CountCh(timestamp_str, "."), FindFrom(timestamp_str, ".", 1))

\* MFTParser.parse_mft_timestamp
parse_mft_timestamp(timestamp_str) == IsoZ(mft_datetime(timestamp_str))

\* The formats parse_timestamp tries, in order.
formats ==
    << "%Y-%m-%d %H:%M:%S",
       "%Y-%m-%d %H:%M:%S.%f",
       "%m/%d/%Y %H:%M:%S",
       "%m/%d/%Y %I:%M:%S %p" >>

\* The first format of the list, from position k on, that strptime accepts.
RECURSIVE TryFormats(_, _)
TryFormats(s, k) ==
    IF k > Len(formats) THEN None
    ELSE OrElse(strptime(s, formats[k]), TryFormats(s, k + 1))

\* The datetime parse_timestamp (Amcache, LNK, registry) arrives at.
generic_datetime(timestamp_str) ==
    IF timestamp_str = "" \/ Strip(timestamp_str) = "" THEN None
    ELSE OrElse(TryFormats(Strip(timestamp_str), 1),
                fromisoformat(Replace(timestamp_str, "Z", "+00:00")))

\* AmcacheParser.parse_timestamp, LnkParser.parse_timestamp,
\* RegistryParser.parse_timestamp (the three are the same code).
parse_timestamp(timestamp_str) == IsoZ(generic_datetime(timestamp_str))

(***************************************************************************)
(* The row loop of the CSV-based parsers                                   *)
(***************************************************************************)

CsvParsers == {"mft", "amcache", "lnk", "registry"}
Platforms == {"elk", "timesketch"}

\* A record (a Python dict with str keys) is a function from its keys.
EmptyEntry == [k \in {} |-> ""]

\* entry[k] = v
Put(entry, k, v) == [x \in DOMAIN entry \cup {k} |-> IF x = k THEN v ELSE entry[x]]

\* The test that decides whether a cell of the row is kept:
\* 'if not key: continue' and 'if value and str(value).strip()'.
keep_cell(key, value) ==
    key # "" /\ value # "" /\ Strip(value) # ""

\* The loop 'for key, value in row.items()' over the cells k.. of the row;
\* a row is the sequence of its <<key, value>> cells in column order.
RECURSIVE sanitize_from(_, _, _)
sanitize_from(row, k, entry) ==
    IF k > Len(row) THEN entry
    ELSE sanitize_from(row, k + 1,
            IF keep_cell(row[k][1], row[k][2])
            THEN Put(entry, clean_key(row[k][1]), Strip(row[k][2]))
            ELSE entry)

sanitize(row) == sanitize_from(row, 1, EmptyEntry)

\* timestamp_fields of each parser.
mft_timestamp_fields ==
    << "created0x10", "modified0x10", "accessed0x10", "recordmodified0x10",
       "created0x30", "modified0x30", "accessed0x30", "recordmodified0x30",
       "created", "modified", "accessed", "mftrecordnumber" >>

amcache_timestamp_fields ==
    << "keymodifiedtimestamp", "compiledtime", "created",
       "modified", "linkdate", "lastmodifiedtimestamp",
       "lastmodifiedtimestamp2", "filekeylastaccessedtime" >>

lnk_timestamp_fields ==
    << "sourcemodified", "sourcecreated", "sourceaccessed",
       "targetmodified", "targetcreated", "targetaccessed",
       "trackercreatedon", "trackerlastusedtime" >>

registry_timestamp_fields ==
    << "lastwritetime", "lastmodified", "timestamp",
       "installdate", "created", "modified",
       "lastconnected", "lastaccessed" >>

timestamp_fields(p) ==
    CASE p = "mft" -> mft_timestamp_fields
      [] p = "amcache" -> amcache_timestamp_fields
      [] p = "lnk" -> lnk_timestamp_fields
      [] p = "registry" -> registry_timestamp_fields

\* The timestamp parser each class calls on a candidate value.
parse_ts(p, value) ==
    IF p = "mft" THEN parse_mft_timestamp(value) ELSE parse_timestamp(value)

\* The loop 'for ts_field in timestamp_fields' over the fields k.. of the
\* list: st.entry is the record, st.timestamps the list `timestamps`.
RECURSIVE resolve_from(_, _, _, _)
resolve_from(p, fields, k, st) ==
    IF k > Len(fields) THEN st
    ELSE
        LET ts_field == fields[k]
            \* 'if parsed_ts:' on what the timestamp parser returned
            Store(parsed_ts) ==
                IF parsed_ts # None
                THEN [entry |-> Put(st.entry, ts_field \o "_iso", parsed_ts[1]),
                      timestamps |-> Append(st.timestamps, parsed_ts[1])]
                ELSE st
        IN  resolve_from(p, fields, k + 1,
                Store(IF ts_field \in DOMAIN st.entry
                      THEN parse_ts(p, st.entry[ts_field]) ELSE None))

resolve(p, fields, entry) ==
    resolve_from(p, fields, 1, [entry |-> entry, timestamps |-> <<>>])

\* timestamps[0]
str_first(ts) == ts[1]

\* max(timestamps): the first of the greatest strings of a non-empty list.
RECURSIVE str_max(_)
str_max(ts) ==
    IF Len(ts) = 1 THEN ts[1]
    ELSE LET m == str_max(Tail(ts)) IN IF StrLt(ts[1], m) THEN m ELSE ts[1]

\* latest_timestamp: max(timestamps), or datetime.now().isoformat() + 'Z'.
latest_timestamp(timestamps, now) ==
    IF timestamps # <<>> THEN str_max(timestamps) ELSE isoformat(now) \o "Z"

\* The name parse_file receives for each artifact and the CSV the tool writes.
ArtifactBasename(p) ==
    CASE p = "mft" -> "$MFT" [] p = "amcache" -> "Amcache.hve"
      [] p = "lnk" -> "report.lnk" [] p = "registry" -> "NTUSER.DAT"
      [] p = "evtx" -> "Security.evtx"

CsvBasename(p) ==
    CASE p = "mft" -> "output" [] p = "amcache" -> "Amcache_Entries"
      [] p = "lnk" -> "LECmd_Output" [] p = "registry" -> "RECmd_Output"

\* str.upper()
RECURSIVE Upper(_)
Upper(s) ==
    IF Len(s) = 0 THEN ""
    ELSE (IF \E i \in 1..26 : Ch(LowerChars, i) = Ch(s, 1)
          THEN Ch(UpperChars, CHOOSE i \in 1..26 : Ch(LowerChars, i) = Ch(s, 1))
          ELSE Ch(s, 1)) \o Upper(SubSeq(s, 2, Len(s)))

\* RegistryParser: the hive type read off the file name.
hive_type(name) ==
    LET hive_name == Upper(name) IN
    IF Contains(hive_name, "SYSTEM") THEN "SYSTEM"
    ELSE IF Contains(hive_name, "SOFTWARE") THEN "SOFTWARE"
    ELSE IF Contains(hive_name, "SAM") THEN "SAM"
    ELSE IF Contains(hive_name, "SECURITY") THEN "SECURITY"
    ELSE IF Contains(hive_name, "NTUSER") THEN "NTUSER.DAT"
    ELSE IF Contains(hive_name, "USRCLASS") THEN "UsrClass.dat"
    ELSE "UNKNOWN"

\* The timesketch fields besides 'datetime' that each parser adds.
shape_timesketch(p, e) ==
    CASE p = "mft" ->
            LET e1 == IF "created0x10_iso" \in DOMAIN e
                      THEN Put(e, "timestamp_desc", e["created0x10_iso"]) ELSE e
            IN  IF "nametype" \in DOMAIN e1 THEN Put(e1, "message", e1["nametype"]) ELSE e1
      [] p = "amcache" ->
            Put(Put(e, "timestamp_desc", "Amcache Entry"), "message",
                IF "applicationname" \in DOMAIN e THEN "Amcache: " \o e["applicationname"]
                ELSE IF "fullpath" \in DOMAIN e THEN "Amcache: " \o e["fullpath"]
                ELSE "Amcache entry from " \o CsvBasename(p))
      [] p = "lnk" ->
            Put(Put(e, "timestamp_desc", "LNK File Access"), "message",
                IF "targetname" \in DOMAIN e THEN "LNK: " \o e["targetname"]
                ELSE IF "absolutepath" \in DOMAIN e THEN "LNK: " \o e["absolutepath"]
                ELSE IF "sourcefile" \in DOMAIN e THEN "LNK: " \o e["sourcefile"]
                ELSE "LNK file accessed")
      [] p = "registry" ->
            Put(Put(e, "timestamp_desc", "Registry Key Modified"), "message",
                IF "keypath" \in DOMAIN e THEN "Registry: " \o e["keypath"]
                ELSE IF "valuename" \in DOMAIN e THEN "Registry value: " \o e["valuename"]
                ELSE IF "path" \in DOMAIN e THEN "Registry: " \o e["path"]
                ELSE "Registry entry from " \o CsvBasename(p))

\* The metadata every CSV parser adds last.
add_metadata(p, e) ==
    LET e1 == Put(e, "source_file", ArtifactBasename(p))
        e2 == IF p = "mft" THEN e1 ELSE Put(e1, "csv_source", CsvBasename(p))
        e3 == Put(e2, "log_type", p)
        e4 == Put(e3, "parser",
                  CASE p = "mft" -> "mftecmd" [] p = "amcache" -> "amcacheparser"
                    [] p = "lnk" -> "lecmd" [] p = "registry" -> "recmd")
    IN  IF p = "registry" THEN Put(e4, "hive_type", hive_type(ArtifactBasename(p)))
        ELSE e4

\* The name of the canonical timestamp field of each backend.
ts_key(plat) == IF plat = "elk" THEN "@timestamp" ELSE "datetime"

\* The body of the row loop after the sanitizer: the document appended to
\* `entries` for a non-empty sanitized record.
shape_row(p, plat, fields, entry, now) ==
    LET Shape(e1) ==
            add_metadata(p, IF plat = "timesketch" THEN shape_timesketch(p, e1) ELSE e1)
        Stamp(r) ==
            Shape(Put(r.entry, ts_key(plat), latest_timestamp(r.timestamps, now)))
    IN  Stamp(resolve(p, fields, entry))

(***************************************************************************)
(* JSON values and xml.etree.ElementTree                                   *)
(***************************************************************************)

\* A JSON / Python value: t is its type, s the text of a str (or the digits
\* of a number, or "true"/"false"), kids the items of a dict (key k, value
\* v, in insertion order) or of a list (k is "").
Str(s)  == [t |-> "str",  s |-> s,  kids |-> <<>>]
Num(s)  == [t |-> "num",  s |-> s,  kids |-> <<>>]
Bool(s) == [t |-> "bool", s |-> s,  kids |-> <<>>]
Null    == [t |-> "null", s |-> "", kids |-> <<>>]
Dict(kids) == [t |-> "dict", s |-> "", kids |-> kids]
List(kids) == [t |-> "list", s |-> "", kids |-> kids]
KV(k, v) == [k |-> k, v |-> v]

\* bool(v) of Python.
Truthy(v) ==
    CASE v.t = "str" -> v.s # ""
      [] v.t = "num" -> ToNum(v.s) # 0
      [] v.t = "bool" -> v.s = "true"
      [] v.t = "null" -> FALSE
      [] v.t \in {"dict", "list"} -> v.kids # <<>>

\* d[k] = v on the items of a dict: a key keeps the place of its first
\* insertion.
RECURSIVE DictPut(_, _, _)
DictPut(kids, k, v) ==
    IF kids = <<>> THEN <<KV(k, v)>>
    ELSE IF Head(kids).k = k THEN <<KV(k, v)>> \o Tail(kids)
    ELSE <<Head(kids)>> \o DictPut(Tail(kids), k, v)

HasKey(kids, k) == \E i \in 1..Len(kids) : kids[i].k = k
Lookup(kids, k) == kids[CHOOSE i \in 1..Len(kids) : kids[i].k = k].v

\* The escapes json.dumps writes inside a string.
RECURSIVE JsonEscape(_)
JsonEscape(s) ==
    IF Len(s) = 0 THEN ""
    ELSE (CASE Ch(s, 1) = "\"" -> "\\\""
            [] Ch(s, 1) = "\\" -> "\\\\"
            [] Ch(s, 1) = "\n" -> "\\n"
            [] Ch(s, 1) = "\t" -> "\\t"
            [] OTHER -> Ch(s, 1)) \o JsonEscape(SubSeq(s, 2, Len(s)))

\* json.dumps(v, ensure_ascii=False) with the default separators.
RECURSIVE json_dumps(_)
RECURSIVE JsonJoin(_, _, _)
JsonJoin(kids, k, withKeys) ==
    IF k > Len(kids) THEN ""
    ELSE (IF k > 1 THEN ", " ELSE "")
         \o (IF withKeys THEN "\"" \o JsonEscape(kids[k].k) \o "\": " ELSE "")
         \o json_dumps(kids[k].v) \o JsonJoin(kids, k + 1, withKeys)
json_dumps(v) ==
    CASE v.t = "str" -> "\"" \o JsonEscape(v.s) \o "\""
      [] v.t \in {"num", "bool"} -> v.s
      [] v.t = "null" -> "null"
      [] v.t = "list" -> "[" \o JsonJoin(v.kids, 1, FALSE) \o "]"
      [] v.t = "dict" -> "{" \o JsonJoin(v.kids, 1, TRUE) \o "}"

\* An Element: its tag, its attributes as <<name, value>> pairs, its text
\* ("" when it has none) and its child elements.
Element(tag, attrs, text, kids) ==
    [tag |-> tag, attrs |-> attrs, text |-> text, kids |-> kids]

NoElement == Element("", <<>>, "", <<>>)
XmlFail == [ok |-> FALSE, pos |-> 0, el |-> NoElement]

IsNameStart(c) ==
    \/ \E i \in 1..26 : Ch(UpperChars, i) = c \/ Ch(LowerChars, i) = c
    \/ c = "_"
IsNameCh(c) == IsNameStart(c) \/ IsDigit(c) \/ c \in {"-", "."}

\* The position after the name that starts at i.
RECURSIVE NameEnd(_, _)
NameEnd(s, i) == IF i <= Len(s) /\ IsNameCh(Ch(s, i)) THEN NameEnd(s, i + 1) ELSE i

SkipSpaces(s, i) == i + CountSpaces(s, i)

\* Character data with its predefined entity references replaced; None when
\* it holds any other '&'.
RECURSIVE Unescape(_)
Unescape(s) ==
    LET \* the text and the length of the entity reference that starts rest
        Entity(rest) ==
            CASE StartsWith(rest, "&lt;") -> <<"<", 4>>
              [] StartsWith(rest, "&gt;") -> <<">", 4>>
              [] StartsWith(rest, "&amp;") -> <<"&", 5>>
              [] StartsWith(rest, "&quot;") -> <<"\"", 6>>
              [] StartsWith(rest, "&apos;") -> <<"'", 6>>
              [] OTHER -> <<"", 0>>
        Join(i, ent, tail) ==
            IF tail = None THEN None ELSE Some(SubSeq(s, 1, i - 1) \o ent[1] \o tail[1])
        Reference(i, ent) ==
            IF ent[2] = 0 THEN None
            ELSE Join(i, ent, Unescape(SubSeq(s, i + ent[2], Len(s))))
        At(i) == IF i = 0 THEN Some(s) ELSE Reference(i, Entity(SubSeq(s, i, Len(s))))
    IN  At(FindFrom(s, "&", 1))

\* The attributes of a start tag from position i on: ok, the position of the
\* '>' or '/' that ends them, and the <<name, value>> pairs.
RECURSIVE ParseAttrs(_, _, _)
ParseAttrs(s, i, acc) ==
    LET bad == [ok |-> FALSE, pos |-> 0, attrs |-> <<>>]
        Add(name, raw, close, value) ==
            IF value = None \/ Contains(raw, "<")
               \/ \E n \in 1..Len(acc) : acc[n][1] = name
            THEN bad
            ELSE ParseAttrs(s, close + 1, Append(acc, <<name, value[1]>>))
        \* q: the opening quote, close: the closing one
        Quoted(name, q, close) ==
            IF close = 0 THEN bad
            ELSE Add(name, SubSeq(s, q + 1, close - 1), close,
                     Unescape(SubSeq(s, q + 1, close - 1)))
        \* eq: where the '=' has to be, q: where the value has to start
        Value(name, eq, q) ==
            IF eq > Len(s) \/ Ch(s, eq) # "=" \/ q > Len(s)
               \/ Ch(s, q) \notin {"\"", "'"}
            THEN bad
            ELSE Quoted(name, q, FindFrom(s, Ch(s, q), q + 1))
        Equals(name, eq) == Value(name, eq, SkipSpaces(s, eq + 1))
        Name(j, e) == Equals(SubSeq(s, j, e - 1), SkipSpaces(s, e))
        At(j) ==
            IF j > Len(s) THEN bad
            ELSE IF Ch(s, j) \in {">", "/"} THEN [ok |-> TRUE, pos |-> j, attrs |-> acc]
            ELSE IF j = i \/ ~IsNameStart(Ch(s, j)) THEN bad
            ELSE Name(j, NameEnd(s, j))
    IN  At(SkipSpaces(s, i))

\* The attributes without the namespace declaration.
RECURSIVE DropXmlns(_)
DropXmlns(attrs) ==
    IF attrs = <<>> THEN <<>>
    ELSE (IF Head(attrs)[1] = "xmlns" THEN <<>> ELSE <<Head(attrs)>>)
         \o DropXmlns(Tail(attrs))

\* The element whose start tag opens at position i; ns is the default
\* namespace in scope, which ElementTree writes as '{ns}' before the tag.
RECURSIVE ParseElement(_, _, _)
RECURSIVE ParseContent(_, _, _, _, _, _, _)
ParseElement(s, i, ns) ==
    LET Closed(tag, attrs, c) ==
            IF ~c.ok THEN XmlFail
            ELSE [ok |-> TRUE, pos |-> c.pos,
                  el |-> Element(tag, attrs, c.el.text, c.el.kids)]
        \* a: the attributes parsed, ns1: the default namespace from here on
        Open(name, a, ns1, tag) ==
            IF Ch(s, a.pos) = "/"
            THEN IF a.pos + 1 <= Len(s) /\ Ch(s, a.pos + 1) = ">"
                 THEN [ok |-> TRUE, pos |-> a.pos + 2,
                       el |-> Element(tag, DropXmlns(a.attrs), "", <<>>)]
                 ELSE XmlFail
            ELSE Closed(tag, DropXmlns(a.attrs),
                        ParseContent(s, a.pos + 1, name, ns1, TRUE, "", <<>>))
        Scoped(name, a, ns1) ==
            Open(name, a, ns1, IF ns1 = "" THEN name ELSE "{" \o ns1 \o "}" \o name)
        Attrs(name, a) ==
            IF ~a.ok THEN XmlFail
            ELSE Scoped(name, a,
                    LET decl == {n \in 1..Len(a.attrs) : a.attrs[n][1] = "xmlns"}
                    IN  IF decl = {} THEN ns ELSE a.attrs[CHOOSE n \in decl : TRUE][2])
        Name(e) == Attrs(SubSeq(s, i + 1, e - 1), ParseAttrs(s, e, <<>>))
    IN  IF i + 1 > Len(s) \/ Ch(s, i) # "<" THEN XmlFail
        ELSE IF ~IsNameStart(Ch(s, i + 1)) THEN XmlFail
        ELSE Name(NameEnd(s, i + 1))

\* The content of the element `name` from position i up to its end tag:
\* the character data before the first child is its text, the data after a
\* child is that child's tail, which element_to_dict never reads.
ParseContent(s, i, name, ns, first, text, kids) ==
    LET \* the end tag at lt, its name ending before e, its '>' due at j
        EndTag(lt, text1, e, j) ==
            IF SubSeq(s, lt + 2, e - 1) = name /\ j <= Len(s) /\ Ch(s, j) = ">"
            THEN [ok |-> TRUE, pos |-> j + 1, el |-> Element(name, <<>>, text1, kids)]
            ELSE XmlFail
        EndName(lt, text1, e) == EndTag(lt, text1, e, SkipSpaces(s, e))
        Child(text1, child) ==
            IF ~child.ok THEN XmlFail
            ELSE ParseContent(s, child.pos, name, ns, FALSE, text1,
                              Append(kids, child.el))
        Markup(lt, text1) ==
            IF Ch(s, lt + 1) = "/" THEN EndName(lt, text1, NameEnd(s, lt + 2))
            ELSE Child(text1, ParseElement(s, lt, ns))
        Data(lt, data) ==
            IF data = None \/ lt + 1 > Len(s) THEN XmlFail
            ELSE Markup(lt, IF first THEN data[1] ELSE text)
        At(lt) == IF lt = 0 THEN XmlFail ELSE Data(lt, Unescape(SubSeq(s, i, lt - 1)))
    IN  At(FindFrom(s, "<", i))

\* ET.fromstring on documents made of an optional XML declaration, elements,
\* attributes, character data and predefined entities: None is ParseError.
fromstring(s) ==
    LET Root(root) ==
            IF ~root.ok \/ SkipSpaces(s, root.pos) # Len(s) + 1 THEN None
            ELSE Some(root.el)
        Prolog(declEnd) ==
            IF StartsWith(s, "<?xml") /\ declEnd = 0 THEN None
            ELSE Root(ParseElement(s, SkipSpaces(s, IF StartsWith(s, "<?xml")
                                                    THEN declEnd + 2 ELSE 1), ""))
    IN  Prolog(IF StartsWith(s, "<?xml") THEN FindFrom(s, "?>", 6) ELSE 0)

(***************************************************************************)
(* EVTXParser: parse_xml_string, is_xml_content, flatten_dict              *)
(***************************************************************************)

\* key.split('}')[-1] if '}' in key else key
RECURSIVE local_name(_)
local_name(key) ==
    LET i == FindFrom(key, "}", 1) IN
    IF i = 0 THEN key ELSE local_name(SubSeq(key, i + 1, Len(key)))

\* The loop that stores the attributes of an element under 'attr_<name>'.
RECURSIVE attrs_to_items(_, _, _)
attrs_to_items(attrs, k, res) ==
    IF k > Len(attrs) THEN res
    ELSE attrs_to_items(attrs, k + 1,
            DictPut(res, "attr_" \o local_name(attrs[k][1]), Str(attrs[k][2])))

\* result.update(child_dict)
RECURSIVE dict_update(_, _, _)
dict_update(res, child_dict, k) ==
    IF k > Len(child_dict) THEN res
    ELSE dict_update(DictPut(res, child_dict[k].k, child_dict[k].v), child_dict, k + 1)

\* element_to_dict, and the loop over the children that builds child_dict:
\* a repeated tag turns its entry into a list.
RECURSIVE element_to_dict(_)
RECURSIVE children_to_items(_, _, _)
children_to_items(kids, k, child_dict) ==
    LET AsList(old) == IF old.t = "list" THEN old ELSE List(<<KV("", old)>>)
        Add(tag, child_data) ==
            IF HasKey(child_dict, tag)
            THEN DictPut(child_dict, tag,
                         List(Append(AsList(Lookup(child_dict, tag)).kids,
                                     KV("", child_data))))
            ELSE DictPut(child_dict, tag, child_data)
    IN  IF k > Len(kids) THEN child_dict
        ELSE children_to_items(kids, k + 1,
                Add(local_name(kids[k].tag), element_to_dict(kids[k])))
element_to_dict(element) ==
    LET Result(res) ==
            IF Len(res) = 1 /\ HasKey(res, "text") THEN Lookup(res, "text")
            ELSE IF res # <<>> THEN Dict(res)
            ELSE Null
        Children(res) ==
            Result(IF element.kids # <<>>
                   THEN dict_update(res, children_to_items(element.kids, 1, <<>>), 1)
                   ELSE res)
        Text(res) ==
            Children(IF Strip(element.text) # ""
                     THEN DictPut(res, "text", Str(Strip(element.text))) ELSE res)
    IN  Text(attrs_to_items(element.attrs, 1, <<>>))

\* EVTXParser.parse_xml_string: Null is the None it returns, on a parse
\* error too.
parse_xml_string(xml_string) ==
    LET Root(root) == IF root = None THEN Null ELSE element_to_dict(root[1])
    IN  Root(fromstring(Replace(Replace(xml_string, "\\r\\n", ""), "\r\n", "")))

\* s.endswith(p)
EndsWith(s, p) == Len(s) >= Len(p) /\ SubSeq(s, Len(s) - Len(p) + 1, Len(s)) = p

\* A classification by the opening character alone.
is_xml_content_open_only(value) ==
    value.t = "str" /\ StartsWith(Strip(value.s), "<")

\* EVTXParser.is_xml_content
is_xml_content(value) ==
    IF value.t # "str" THEN FALSE
    ELSE \/ StartsWith(Strip(value.s), "<?xml")
         \/ (StartsWith(Strip(value.s), "<") /\ EndsWith(Strip(value.s), ">"))

\* A flat record of the EVTX parser maps its keys to values.
EmptyFlat == [k \in {} |-> Null]

\* dict(items) where the items of `later` come after those of `earlier`.
Merge(earlier, later) == later @@ earlier

Raised == [ok |-> FALSE, flat |-> EmptyFlat]

\* The variant that forgets the key of the enclosing mapping.
compose_key_leaf_only(parent_key, k, sep) ==
    Replace(Replace(k, "#attributes_", ""), "#attributes", "attributes")

\* new_key of flatten_dict.
compose_key(parent_key, k, sep) ==
    Replace(Replace(IF parent_key # "" THEN parent_key \o sep \o k ELSE k,
                    "#attributes_", ""), "#attributes", "attributes")

\* The variant that files every value under its key and never descends.
flatten_dict_shallow(d, parent_key, sep) ==
    [ok |-> TRUE,
     flat |-> [key \in {d.kids[i].k : i \in 1..Len(d.kids)} |-> Lookup(d.kids, key)]]

\* EVTXParser.flatten_dict, and its loop 'for k, v in d.items()' from item k
\* on.  ok = FALSE is the AttributeError of d.items() on a value that is not
\* a dict.
RECURSIVE flatten_dict(_, _, _)
RECURSIVE flatten_items(_, _, _, _, _)
flatten_items(kids, k, parent_key, sep, items) ==
    LET v == kids[k].v
        \* items.append((key, value)) and the rest of the loop
        Append1(key, value) ==
            flatten_items(kids, k + 1, parent_key, sep, Merge(items, key :> value))
        \* items.extend(sub.items()) after the items `before` it
        Extend(before, sub) ==
            IF ~sub.ok THEN Raised
            ELSE flatten_items(kids, k + 1, parent_key, sep,
                               Merge(Merge(items, before), sub.flat))
        Xml(new_key, parsed_xml) ==
            IF Truthy(parsed_xml)
            THEN Extend((new_key \o "_raw") :> v,
                        flatten_dict(parsed_xml, new_key \o "_parsed", sep))
            ELSE Append1(new_key, v)
        Item(new_key) ==
            IF is_xml_content(v) THEN Xml(new_key, parse_xml_string(v.s))
            ELSE IF v.t = "dict" THEN Extend(EmptyFlat, flatten_dict(v, new_key, sep))
            ELSE IF v.t = "list" THEN Append1(new_key, Str(json_dumps(v)))
            ELSE Append1(new_key, v)
    IN  IF k > Len(kids) THEN [ok |-> TRUE, flat |-> items]
        ELSE Item(compose_key(parent_key, kids[k].k, sep))
flatten_dict(d, parent_key, sep) ==
    IF d.t # "dict" THEN Raised
    ELSE flatten_items(d.kids, 1, parent_key, sep, EmptyFlat)

(***************************************************************************)
(* Ordering and emission                                                   *)
(***************************************************************************)

\* x.get(key, ''): the sort key of a document.  The documents of the CSV
\* parsers hold strings, those of the EVTX parser hold values.
sort_key(p, plat, doc) ==
    IF ts_key(plat) \in DOMAIN doc THEN doc[ts_key(plat)]
    ELSE IF p = "evtx" THEN Str("") ELSE ""

\* a < b on two sort keys.
key_lt(p, a, b) ==
    IF p # "evtx" THEN StrLt(a, b)
    ELSE IF a.t = "str" THEN StrLt(a.s, b.s)
    ELSE ToNum(a.s) < ToNum(b.s)

\* TRUE iff list.sort can compare the keys of the documents: fewer than two
\* documents, or only strings, or only numbers; otherwise '<' raises
\* TypeError.
sortable(p, plat, docs) ==
    \/ p # "evtx"
    \/ Len(docs) < 2
    \/ \A i \in 1..Len(docs) : sort_key(p, plat, docs[i]).t = "str"
    \/ \A i \in 1..Len(docs) : sort_key(p, plat, docs[i]).t = "num"

\* The place of doc in the sorted list docs: after every document whose key
\* is less than or equal to its own (list.sort is stable).
RECURSIVE insert_sorted(_, _, _, _)
insert_sorted(p, plat, docs, doc) ==
    IF docs = <<>> THEN <<doc>>
    ELSE IF key_lt(p, sort_key(p, plat, doc), sort_key(p, plat, Head(docs)))
         THEN <<doc>> \o docs
         ELSE <<Head(docs)>> \o insert_sorted(p, plat, Tail(docs), doc)

\* The variant that does not sort.
sort_entries_unsorted(p, plat, docs, k) == docs

\* entries.sort(key=lambda x: x.get(ts_key, '')) over the first k documents.
RECURSIVE sort_entries(_, _, _, _)
sort_entries(p, plat, docs, k) ==
    IF k = 0 THEN <<>>
    ELSE insert_sorted(p, plat, sort_entries(p, plat, docs, k - 1), docs[k])

(***************************************************************************)
(* What the external tools can produce                                     *)
(***************************************************************************)

\* The most rows (CSV parsers) or output lines (EVTX parser) one run reads.
MaxRows == 2

\* The values datetime.now() can return, in the order of time.
NowValues ==
    << DateTime(2026, 11, 2, 9, 0, 0, 250000, FALSE, 0),
       DateTime(2026, 11, 2, 9, 0, 1, 0, FALSE, 0) >>

\* The values of the timestamp columns of MFTECmd's CSV.
MftCreatedValues == {"2024-01-15 14:30:45.1234567", "2024-01-15 14:30:45", " "}
MftModifiedValues ==
    {"1601-01-01 00:00:00", "1601-01-01 00:00:00.0000000", "1601-01-01 00:00:00.000",
     "2024-01-15 14:30:45.5", "n/a"}

MftRows ==
    { << <<"Created0x10", a>>, <<"Modified0x10", b>> >> :
        a \in MftCreatedValues, b \in MftModifiedValues }
    \cup { << <<"Name Type", "DOS">>, <<" ", "x">> >>,
           << <<"", "x">>, <<"Created0x10", "">> >>,
           << <<"(Size)", "0">>, <<"\t", " ">> >>,
           \* columns named like the fields the parser adds
           << <<"Source File", "a.txt">>, <<"Message", "hello">> >>,
           \* the column of the record number
           << <<"MftRecordNumber", "42">>, <<"Created0x10", "2024-01-15 14:30:45">> >>,
           << <<"MftRecordNumber", "2030-01-01 00:00:00">>,
              <<"Created0x10", "2024-01-15 14:30:45">> >> }

\* The values of the timestamp columns of the other tools' CSVs.
FirstTsValues == {"2024-01-15 14:30:45", "01/15/2024 02:30:45 PM"}
SecondTsValues == {"2024-01-15T14:30:45+02:00", "2024-01-15 14:30:45.5", "n/a", ""}

\* The two timestamp columns and the descriptive column of each tool.
TsColumns(p) ==
    CASE p = "amcache" -> <<"LinkDate", "Created", "FullPath">>
      [] p = "lnk" -> <<"SourceCreated", "Source Modified", "TargetName">>
      [] p = "registry" -> <<"LastWriteTime", "Timestamp", "Key/Path">>

GenericRows(p) ==
    { << <<TsColumns(p)[1], a>>, <<TsColumns(p)[2], b>> >> :
        a \in FirstTsValues, b \in SecondTsValues }
    \cup { << <<TsColumns(p)[3], "calc.exe">>, <<" ", "x">> >>,
           << <<"", "x">>, <<TsColumns(p)[1], " ">> >>,
           \* columns named like the fields the parser adds
           << <<"Log Type", "custom">>, <<"Datetime", "yesterday">> >> }

\* The rows the tool of parser p can write to its CSV.
Rows(p) == IF p = "mft" THEN MftRows ELSE GenericRows(p)

(***************************************************************************)
(* parse_file of the CSV-based parsers                                     *)
(***************************************************************************)

Absent == <<"absent">>
Written(lines) == <<"written", lines>>

\* The body of 'for row in reader' on one row: the sanitized record, the
\* list `timestamps` and the document made of them; now is the value
\* datetime.now() returns if it is called.
row_iteration(p, plat, row, now) ==
    LET Resolved(entry) ==
            [entry |-> entry,
             timestamps |-> resolve(p, timestamp_fields(p), entry).timestamps,
             doc |-> shape_row(p, plat, timestamp_fields(p), entry, now)]
    IN  Resolved(sanitize(row))

\* row_iteration on each row the tools can write, at each value of the
\* clock.
RowIterations ==
    [p \in CsvParsers |-> [plat \in Platforms |-> [row \in Rows(p) |->
        [c \in 1..Len(NowValues) |-> row_iteration(p, plat, row, NowValues[c])]]]]

\* One iteration of 'for row in reader': sanitize the row, skip it when
\* nothing is left, otherwise resolve the timestamps, shape the document and
\* append it.  datetime.now() is called only when no candidate parsed.
ReadRow ==
    /\ pc = "reading"
    /\ parser \in CsvParsers
    /\ nread < MaxRows
    /\ \E row \in Rows(parser), c \in 1..Len(NowValues) :
        LET Row(it) ==
                /\ c >= clock
                /\ lastrow' = row
                /\ nread' = nread + 1
                /\ IF it.entry = EmptyEntry
                   THEN /\ lastdoc' = <<"skip">>
                        /\ c = clock
                        /\ UNCHANGED <<entries, clock>>
                   ELSE /\ lastdoc' = <<"doc", it.doc>>
                        /\ entries' = Append(entries, it.doc)
                        /\ IF it.timestamps = <<>> THEN clock' = c
                           ELSE c = clock /\ UNCHANGED clock
        IN  Row(RowIterations[parser][platform][row][c])
    /\ UNCHANGED <<parser, platform, pc, output, result, nkey, nprev, napplied,
                   fin, fout, fpc, tool, tempdir,
                   files, fnext, rpc, success_count>>
    /\ UNCHANGED utilVars

\* The end of the CSV: with no entries parse_file returns False and writes
\* nothing; otherwise it sorts the entries, writes them and returns True.
FinishCsv ==
    /\ pc = "reading"
    /\ parser \in CsvParsers
    /\ IF entries = <<>>
       THEN /\ result' = "false"
            /\ UNCHANGED output
       ELSE /\ output' = Written(sort_entries(parser, platform, entries, Len(entries)))
            /\ result' = "true"
    /\ pc' = "done"
    /\ tempdir' = "removed"
    /\ UNCHANGED <<parser, platform, nread, entries, lastrow, lastdoc, clock,
                   nkey, nprev, napplied, fin, fout, fpc, tool, files, fnext, rpc, success_count>>
    /\ UNCHANGED utilVars

(***************************************************************************)
(* parse_file of the EVTX parser                                           *)
(***************************************************************************)

\* A line of evtx_dump's output: a record banner, a blank line, a line that
\* is not JSON, or a JSON document together with the value json.loads
\* returns for it.
Line(kind, v) == [kind |-> kind, v |-> v]

SystemTimeKey == "Event_System_TimeCreated_attributes_SystemTime"
ProviderNameKey == "Event_System_Provider_attributes_Name"

\* flat_event.get(key)
flat_get(flat, key) == IF key \in DOMAIN flat THEN flat[key] ELSE Null

\* datetime.fromisoformat(timestamp_field.replace('Z', '+00:00')).isoformat()
\* inside try/except: None when anything raises.
reparsed(timestamp_field) ==
    LET Iso(dt) == IF dt = None THEN None ELSE Some(Str(isoformat(dt[1])))
    IN  IF timestamp_field.t # "str" THEN None
        ELSE Iso(fromisoformat(Replace(timestamp_field.s, "Z", "+00:00")))

\* The variant that reads the key without the 'Event' root.
evtx_timestamp_field_no_root(flat) ==
    flat_get(flat, "System_TimeCreated_attributes_SystemTime")

\* timestamp_field of the EVTX parser.
evtx_timestamp_field(flat) == flat_get(flat, SystemTimeKey)

\* The platform fields the EVTX parser adds to a flattened event.
evtx_shape(plat, flat_event) ==
    LET Message(e, provider_name) ==
            IF plat = "timesketch" /\ Truthy(provider_name)
            THEN Merge(e, "message" :> provider_name)
            ELSE e
        Parsed(e, dt) ==
            Message(IF dt # None
                    THEN Merge(e, (IF plat = "elk" THEN "timestamp_parsed"
                                   ELSE "timestamp_desc") :> dt[1])
                    ELSE e,
                    flat_get(flat_event, ProviderNameKey))
        Stamp(timestamp_field) ==
            IF Truthy(timestamp_field)
            THEN Parsed(Merge(flat_event, ts_key(plat) :> timestamp_field),
                        reparsed(timestamp_field))
            ELSE Message(flat_event, flat_get(flat_event, ProviderNameKey))
    IN  Stamp(evtx_timestamp_field(flat_event))

\* JSON documents evtx_dump can write.
SystemTimes == {"2024-01-15T10:00:00Z", "2024-01-15T09:00:00.500000Z"}

TimeCreated(t) == KV("TimeCreated", Dict(<<KV("#attributes", Dict(<<KV("SystemTime", Str(t))>>))>>))
Provider(n) == KV("Provider", Dict(<<KV("#attributes", Dict(<<KV("Name", Str(n))>>))>>))
EventOf(system, data) ==
    Dict(<<KV("Event", Dict(<<KV("System", Dict(system))>> \o data))>>)

EvtxEvents ==
    { EventOf(<<Provider("Sysmon"), KV("EventID", Num("1")), TimeCreated(t)>>, <<>>) :
        t \in SystemTimes }
    \cup { EventOf(<<TimeCreated(t)>>,
                   <<KV("EventData", Dict(<<KV("Keywords", List(<<KV("", Str("a")), KV("", Num("2"))>>)),
                                            KV("Xml", Str("<d n=\"1\"><i>x</i><i>y</i></d>"))>>))>>) :
        t \in SystemTimes }
    \cup { \* an event without a creation time, and one whose time is empty
           EventOf(<<Provider("Sysmon"), KV("EventID", Num("4624"))>>, <<>>),
           EventOf(<<TimeCreated("")>>, <<>>),
           \* the record without the 'Event' root
           Dict(<<KV("System", Dict(<<TimeCreated("2024-01-15T10:00:00Z")>>))>>),
           \* a sibling key that flattens onto the creation time key
           EventOf(<<TimeCreated("2024-01-15T10:00:00Z"),
                     KV("TimeCreated_attributes_SystemTime", Str("2023-12-31T23:59:59Z"))>>, <<>>),
           \* a field whose XML document has a root with text only
           EventOf(<<TimeCreated("2024-01-15T10:00:00Z")>>,
                   <<KV("EventData", Dict(<<KV("Xml", Str("<d>x</d>"))>>))>>) }

EvtxLines ==
    { Line("json", v) : v \in EvtxEvents }
    \cup { Line("banner", Null), Line("blank", Null), Line("invalid", Null),
           \* valid JSON that is not an object
           Line("json", List(<<KV("", Num("1"))>>)) }

(***************************************************************************)
(* Steps of parse_file                                                     *)
(***************************************************************************)

Parsers == CsvParsers \cup {"evtx"}

\* How the invocation of the external tool can end.  A tool that does not
\* exit is ended by the timeout=300 the CSV parsers give subprocess.run; the
\* EVTX parser gives none, so there the call never returns ("hang").  The
\* EVTX parser has no CSV; "nopath" is the empty tool path the CSV parsers
\* test before anything else.
ToolOutcomes(p) ==
    IF p = "evtx" THEN {"ok", "error", "notfound", "hang"}
    ELSE {"ok", "error", "timeout", "notfound", "nocsv", "nopath"}

\* The directory for the tool's CSVs once the invocation ended with outcome
\* o.  The EVTX parser has none, and the CSV parsers make theirs after the
\* test of the tool path.  MFTParser, AmcacheParser and LnkParser remove it
\* in the 'finally' of parse_file; RegistryParser removes it after reading
\* the CSVs only, so its early returns and its exceptions leave it behind.
temp_dir_after(p, o) ==
    IF p = "evtx" \/ o = "nopath" THEN "none"
    ELSE IF o = "ok" \/ p = "registry" THEN "exists"
    ELSE "removed"

\* subprocess.run and what parse_file does with its outcome.  A failed
\* invocation returns False; the registry parser first retries a failed
\* batch run without the batch option, and a timeout or a missing executable
\* of that second run is caught by no handler.
RunTool ==
    /\ pc = "start"
    /\ \E o1 \in ToolOutcomes(parser), o2 \in ToolOutcomes(parser) \ {"nopath"} :
        LET retried == parser = "registry" /\ o1 = "error"
            final == IF retried THEN o2 ELSE o1
        IN  /\ ~retried => o2 = "ok"
            /\ IF final = "ok"
               THEN pc' = "reading" /\ UNCHANGED result
               ELSE IF final = "hang"
               THEN pc' = "blocked" /\ UNCHANGED result
               ELSE IF retried /\ final \in {"timeout", "notfound"}
               THEN pc' = "raised" /\ UNCHANGED result
               ELSE pc' = "done" /\ result' = "false"
            /\ tool' = final
            /\ tempdir' = temp_dir_after(parser, final)
    /\ UNCHANGED <<parser, platform, nread, entries, lastrow, lastdoc, clock,
                   output, nkey, nprev, napplied, fin, fout, fpc,
                   files, fnext, rpc, success_count>>
    /\ UNCHANGED utilVars

\* The body of 'for line in lines' on one line: banners and blank lines are
\* skipped, a line json.loads rejects is skipped, every other line is
\* flattened and shaped; the AttributeError of flatten_dict is not a
\* JSONDecodeError and leaves parse_file.
line_iteration(plat, line) ==
    LET Flat(f) == IF ~f.ok THEN <<"raise">> ELSE <<"doc", evtx_shape(plat, f.flat)>>
    IN  IF line.kind # "json" THEN <<"skip">>
        ELSE Flat(flatten_dict(line.v, "", "_"))

\* line_iteration on each line evtx_dump can write.
LineIterations ==
    [plat \in Platforms |-> [line \in EvtxLines |-> line_iteration(plat, line)]]

\* One iteration of 'for line in lines'.
ReadLine ==
    /\ pc = "reading"
    /\ parser = "evtx"
    /\ nread < MaxRows
    /\ \E line \in EvtxLines :
        LET Line1(it) ==
                /\ lastrow' = line
                /\ nread' = nread + 1
                /\ lastdoc' = it
                /\ IF it[1] = "doc" THEN entries' = Append(entries, it[2]) /\ UNCHANGED pc
                   ELSE IF it[1] = "raise" THEN pc' = "raised" /\ UNCHANGED entries
                   ELSE UNCHANGED <<entries, pc>>
        IN  Line1(LineIterations[platform][line])
    /\ UNCHANGED <<parser, platform, clock, output, result, nkey, nprev, napplied,
                   fin, fout, fpc, tool, tempdir,
                   files, fnext, rpc, success_count>>
    /\ UNCHANGED utilVars

\* The end of the output: the events are sorted and written, whatever
\* their number, and parse_file returns True.
FinishEvtx ==
    /\ pc = "reading"
    /\ parser = "evtx"
    /\ IF sortable(parser, platform, entries)
       THEN /\ output' = Written(sort_entries(parser, platform, entries, Len(entries)))
            /\ result' = "true"
            /\ pc' = "done"
       ELSE /\ pc' = "raised"
            /\ UNCHANGED <<output, result>>
    /\ UNCHANGED <<parser, platform, nread, entries, lastrow, lastdoc, clock,
                   nkey, nprev, napplied, fin, fout, fpc, tool, tempdir,
                   files, fnext, rpc, success_count>>
    /\ UNCHANGED utilVars

\* The values of the variables of the parts that a specification leaves out.
IdleParse ==
    /\ parser = "none" /\ platform = "none" /\ pc = "idle" /\ nread = 0
    /\ entries = <<>> /\ lastrow = <<>> /\ lastdoc = <<"none">> /\ clock = 1
    /\ output = Absent /\ result = "none"
    /\ tool = "none" /\ tempdir = "none"
IdleNormalize == nkey = "" /\ nprev = "" /\ napplied = 0
IdleFlatten == fin = Null /\ fout = Raised /\ fpc = "idle"
IdleRun == files = <<>> /\ fnext = 1 /\ rpc = "idle" /\ success_count = 0
IdleRegistry ==
    /\ temp_registry = {} /\ regnext = 1 /\ regread = {}
    /\ regtool = "none" /\ regresult = "none"
IdleOutput ==
    /\ artifact = "none" /\ folder = <<>> /\ found = <<>> /\ onext = 1
    /\ written = <<>> /\ opc = "idle"
IdleCleanup ==
    /\ case_folders = {} /\ log_files = {} /\ indices = {} /\ index_patterns = {}
    /\ command = "none" /\ dry_run = FALSE /\ target = "" /\ deleted = {}
    /\ exit_status = 0
IdleRmtree ==
    /\ max_attempts = 0 /\ attempt = 0 /\ temp_exists = FALSE /\ outcome = "none"
    /\ failed_attempts = 0 /\ sleeps = 0 /\ rmtree_result = "none"
    /\ pf_return = "none" /\ pf_result = "none"
IdleOrganizer ==
    /\ disk = {} /\ source_dir = "" /\ copy_mode = TRUE
    /\ files_by_type = <<>> /\ pending = <<>> /\ disk_before = {}
    /\ total_organized = 0 /\ clobbered = FALSE
    /\ orgpc = "idle" /\ org_result = "none"
IdleUtil ==
    IdleRegistry /\ IdleOutput /\ IdleCleanup /\ IdleRmtree /\ IdleOrganizer

\* parse_file is called on a parser object, with a platform.
Init ==
    /\ parser \in Parsers
    /\ platform \in Platforms
    /\ pc = "start"
    /\ nread = 0
    /\ entries = <<>>
    /\ lastrow = <<>>
    /\ lastdoc = <<"none">>
    /\ clock = 1
    /\ output = Absent
    /\ result = "none"
    /\ tool = "none"
    /\ tempdir = "none"
    /\ IdleNormalize
    /\ IdleFlatten
    /\ IdleRun
    /\ IdleUtil

Next == RunTool \/ ReadRow \/ ReadLine \/ FinishCsv \/ FinishEvtx

Spec == Init /\ [][Next]_vars

(***************************************************************************)
(* The key normalization on its own                                        *)
(***************************************************************************)

\* The longest raw column name.
MaxNameLen == 3

NameAlphabet == {" ", "\t", "(", ")", "/", "\\", "_", "A", "b"}

RECURSIVE NamesOfLen(_)
NamesOfLen(n) ==
    IF n = 0 THEN {""} ELSE {c \o s : c \in NameAlphabet, s \in NamesOfLen(n - 1)}

RawNames == UNION {NamesOfLen(n) : n \in 1..MaxNameLen}

InitNormalize ==
    /\ nkey \in RawNames
    /\ nprev = nkey
    /\ napplied = 0
    /\ IdleParse
    /\ IdleFlatten
    /\ IdleRun
    /\ IdleUtil

\* The normalization applied to the current name, at most twice.
Normalize ==
    /\ napplied < 2
    /\ nprev' = nkey
    /\ nkey' = clean_key(nkey)
    /\ napplied' = napplied + 1
    /\ UNCHANGED <<parser, platform, pc, nread, entries, lastrow, lastdoc, clock,
                   output, result, fin, fout, fpc, tool, tempdir,
                   files, fnext, rpc, success_count>>
    /\ UNCHANGED utilVars

SpecNormalize == InitNormalize /\ [][Normalize]_vars

(***************************************************************************)
(* flatten_dict on its own                                                 *)
(***************************************************************************)

\* The deepest nesting of the mappings given to flatten_dict.
MaxDepth == 2

FlatKeys == {"", "a", "b", "a_b", "#attributes", "attributes"}
Leaves == {Str("x"), Str("y"), List(<<KV("", Num("1")), KV("", Str("x"))>>)}

\* The values nested at most d deep whose mappings have one entry or none.
RECURSIVE Chains(_)
Chains(d) ==
    IF d = 0 THEN Leaves
    ELSE Leaves \cup {Dict(<<>>)}
         \cup {Dict(<<KV(k, v)>>) : k \in FlatKeys, v \in Chains(d - 1)}

\* Mappings of up to two entries, none of them an XML string; the second
\* entry is nested one level less than the first.
NestedMappings ==
    {Dict(<<>>)}
    \cup {Dict(<<KV(k, v)>>) : k \in FlatKeys, v \in Chains(MaxDepth - 1)}
    \cup {Dict(<<KV(k1, v1), KV(k2, v2)>>) :
            <<k1, k2>> \in {kk \in FlatKeys \X FlatKeys : kk[1] # kk[2]},
            <<v1, v2>> \in Chains(MaxDepth - 1) \X Chains(MaxDepth - 2)}

InitFlatten ==
    /\ fin \in NestedMappings
    /\ fout = Raised
    /\ fpc = "input"
    /\ IdleParse
    /\ IdleNormalize
    /\ IdleRun
    /\ IdleUtil

Flatten ==
    /\ fpc = "input"
    /\ fout' = flatten_dict(fin, "", "_")
    /\ fpc' = "flat"
    /\ UNCHANGED <<parser, platform, pc, nread, entries, lastrow, lastdoc, clock,
                   output, result, nkey, nprev, napplied, fin, tool, tempdir,
                   files, fnext, rpc, success_count>>
    /\ UNCHANGED utilVars

SpecFlatten == InitFlatten /\ [][Flatten]_vars

(***************************************************************************)
(* flatten_dict on string fields that hold XML                             *)
(***************************************************************************)

\* Strings is_xml_content takes for XML: documents with attributes, text,
\* nested and repeated children, a declaration, a namespace, escaped
\* markup in their text, children named like the keys of attributes and of
\* the text, and strings ET.fromstring rejects.
XmlTexts ==
    {"<d n=\"1\"><i>x</i><i>y</i></d>",
     "<d>x</d>",
     "<d/>",
     "<d>",
     "<?xml version=\"1.0\"?><d><i>x</i></d>",
     "<?xml",
     "<d><i/></d>",
     "<d><e><i>x</i></e></d>",
     " <d a=\"1\"/> ",
     "<d xmlns=\"u\"><i>x</i></d>",
     "<d a=\"1\">x</d>",
     "<d>&lt;b&gt;x&lt;/b&gt;</d>",
     "<d><i>&lt;b a=\"1\"/&gt;</i></d>",
     "<d><i>x</i></e>",
     "<d",
     " <?xml ",
     "<d n=\"1\"><attr_n>x</attr_n></d>",
     "<d>t<text>x</text></d>"}

XmlKeys == {"Xml", "a"}

\* The values that can stand next to the XML field.
XmlSiblings ==
    {Str("y"), List(<<KV("", Num("1")), KV("", Str("x"))>>),
     Dict(<<KV("c", Num("1"))>>)}

\* The mapping m below n enclosing mappings.
RECURSIVE Enclosed(_, _)
Enclosed(m, n) == IF n = 0 THEN m ELSE Dict(<<KV("Data", Enclosed(m, n - 1))>>)

\* Mappings with one XML field, alone or before another field, at the top
\* or inside enclosing mappings.
XmlMappings ==
    {Enclosed(Dict(<<KV(k, Str(x))>>), n) :
        k \in XmlKeys, x \in XmlTexts, n \in 0..(MaxDepth - 1)}
    \cup {Enclosed(Dict(<<KV(k, Str(x)), KV("b", v)>>), n) :
            k \in XmlKeys, x \in XmlTexts, v \in XmlSiblings, n \in 0..(MaxDepth - 1)}

InitFlattenXml ==
    /\ fin \in XmlMappings
    /\ fout = Raised
    /\ fpc = "input"
    /\ IdleParse
    /\ IdleNormalize
    /\ IdleRun
    /\ IdleUtil

SpecFlattenXml == InitFlattenXml /\ [][Flatten]_vars

(***************************************************************************)
(* main: the per-file loops of a run                                       *)
(***************************************************************************)

\* The most artifact files a run finds.
MaxFiles == 3

\* The order in which main handles the artifact types.
TypeOrder == <<"evtx", "mft", "amcache", "lnk", "registry">>

\* The files a run can find: the types of one to MaxFiles files, in the
\* order in which main reaches them.
FileLists ==
    UNION {{[i \in 1..n |-> TypeOrder[ix[i]]] :
                ix \in {f \in [1..n -> 1..Len(TypeOrder)] :
                            \A i \in 1..(n - 1) : f[i] <= f[i + 1]}} :
           n \in 1..MaxFiles}

\* How a call of parse_file can end.  MFTParser, AmcacheParser and LnkParser
\* turn every exception into False; EVTXParser lets the exceptions of its
\* reading loop out, RegistryParser those of its second tool invocation.
ParseOutcomes(p) ==
    IF p \in {"evtx", "registry"} THEN {"true", "false", "raised"}
    ELSE {"true", "false"}

InitRun ==
    /\ files \in FileLists
    /\ fnext = 1
    /\ rpc = "loop"
    /\ success_count = 0
    /\ IdleParse
    /\ IdleNormalize
    /\ IdleFlatten
    /\ IdleUtil

\* One iteration of a per-file loop: parse_file is called on the next file
\* and success_count counts its True; the loops are inside no try
\* statement, so an exception of parse_file leaves main.
ParseFile ==
    /\ rpc = "loop"
    /\ fnext <= Len(files)
    /\ \E o \in ParseOutcomes(files[fnext]) :
        /\ rpc' = IF o = "raised" THEN "aborted" ELSE "loop"
        /\ success_count' = IF o = "true" THEN success_count + 1 ELSE success_count
    /\ fnext' = fnext + 1
    /\ UNCHANGED <<parser, platform, pc, nread, entries, lastrow, lastdoc, clock,
                   output, result, nkey, nprev, napplied, fin, fout, fpc, tool,
                   tempdir, files>>
    /\ UNCHANGED utilVars

\* The last loop is over.
EndRun ==
    /\ rpc = "loop"
    /\ fnext > Len(files)
    /\ rpc' = "finished"
    /\ UNCHANGED <<parser, platform, pc, nread, entries, lastrow, lastdoc, clock,
                   output, result, nkey, nprev, napplied, fin, fout, fpc, tool,
                   tempdir, files, fnext, success_count>>
    /\ UNCHANGED utilVars

NextRun == ParseFile \/ EndRun

SpecRun == InitRun /\ [][NextRun]_vars

(***************************************************************************)
(* RegistryParser.parse_file, called on one hive after another             *)
(***************************************************************************)

\* How an invocation of RECmd can end.
RecmdOutcomes == {"ok", "error", "timeout", "notfound"}

\* The directory outlives the program: a run may find in it the CSV a call
\* of an earlier run, numbered 0 here, left behind.
InitRegistryRun ==
    /\ temp_registry \in {{}, {0}}
    /\ regnext = 1
    /\ regread = {}
    /\ regtool = "none"
    /\ regresult = "none"
    /\ IdleParse
    /\ IdleNormalize
    /\ IdleFlatten
    /\ IdleRun
    /\ IdleOutput
    /\ IdleCleanup
    /\ IdleRmtree
    /\ IdleOrganizer

\* One call of RegistryParser.parse_file, on the hive numbered regnext.
\* The directory ./temp_registry is the same for every call and
\* os.makedirs(exist_ok=True) takes it as it is.  RECmd may have written its
\* CSV before it ends, however it ends, unless it could not be started; a
\* failed batch run is followed by a second run.  The early returns leave
\* the directory as it is, glob takes every CSV that lies in it, and
\* shutil.rmtree runs after the reading only, its failure being passed over.
RegistryParseFile ==
    /\ regnext <= MaxFiles
    /\ regresult # "raised"
    /\ \E o1 \in RecmdOutcomes, o2 \in RecmdOutcomes, wrote \in BOOLEAN,
          extracted \in BOOLEAN, removed \in BOOLEAN :
        LET retried == o1 = "error"
            final == IF retried THEN o2 ELSE o1
            csv_files == IF wrote THEN temp_registry \cup {regnext} ELSE temp_registry
        IN  /\ ~retried => o2 = "ok"
            /\ (o1 = "notfound" \/ (retried /\ o2 = "notfound")) => ~wrote
            /\ final # "ok" => (~extracted /\ ~removed)
            /\ (final = "ok" /\ csv_files = {}) => (~extracted /\ ~removed)
            /\ regtool' = final
            /\ IF final # "ok"
               THEN /\ regresult' = IF retried /\ final \in {"timeout", "notfound"}
                                    THEN "raised" ELSE "false"
                    /\ regread' = {}
                    /\ temp_registry' = csv_files
               ELSE IF csv_files = {}
               THEN /\ regresult' = "false"
                    /\ regread' = {}
                    /\ temp_registry' = csv_files
               ELSE /\ regresult' = IF extracted THEN "true" ELSE "false"
                    /\ regread' = csv_files
                    /\ temp_registry' = IF removed THEN {} ELSE csv_files
    /\ regnext' = regnext + 1
    /\ UNCHANGED <<coreVars, organizerVars, outputVars, cleanupVars, rmtreeVars>>

NextRegistryRun == RegistryParseFile

SpecRegistryRun == InitRegistryRun /\ [][NextRegistryRun]_vars

(***************************************************************************)
(* main: the files a parsing section finds and the output paths it gives   *)
(***************************************************************************)

\* s.rfind(c): the position of the last c in s, 0 if there is none.
RECURSIVE RFind(_, _)
RFind(s, c) ==
    IF Len(s) = 0 THEN 0
    ELSE IF Ch(s, Len(s)) = c THEN Len(s)
    ELSE RFind(SubSeq(s, 1, Len(s) - 1), c)

\* os.path.basename
basename(path) == SubSeq(path, RFind(path, "/") + 1, Len(path))

\* os.path.splitext: the extension starts at the last dot of the last
\* component, unless only dots precede it there.
splitext(path) ==
    LET sepIndex == RFind(path, "/")
        dotIndex == RFind(path, ".")
    IN  IF dotIndex > sepIndex
           /\ \E i \in (sepIndex + 1)..(dotIndex - 1) : Ch(path, i) # "."
        THEN <<SubSeq(path, 1, dotIndex - 1), SubSeq(path, dotIndex, Len(path))>>
        ELSE <<path, "">>

\* glob.glob(os.path.join(dir, '*' + suffix)) and ('*' + part + '*'): the
\* entries of the folder itself whose name ends with suffix, or holds part.
glob_suffix(dir, suffix) ==
    LET Test(f) == ~Contains(f, "/") /\ EndsWith(f, suffix) IN SelectSeq(dir, Test)

glob_part(dir, part) ==
    LET Test(f) == ~Contains(f, "/") /\ Contains(f, part) IN SelectSeq(dir, Test)

common_hives == <<"SYSTEM", "SOFTWARE", "SAM", "SECURITY", "NTUSER.DAT", "UsrClass.dat">>

\* The list of files a section hands to its loop.
discover(type, dir) ==
    CASE type = "evtx" -> glob_suffix(dir, ".evtx") \o glob_suffix(dir, ".EVTX")
      [] type = "lnk" -> glob_suffix(dir, ".lnk") \o glob_suffix(dir, ".LNK")
      [] type = "amcache" -> glob_suffix(dir, ".hve") \o glob_part(dir, "Amcache")
      [] type = "mft" ->
            LET Test(f) == /\ ~Contains(f, "/")
                           /\ \/ EndsWith(Lower(f), ".mft")
                              \/ Contains(Lower(basename(f)), "mft")
                              \/ splitext(f)[2] = ""
            IN  SelectSeq(dir, Test)
      [] type = "registry" ->
            LET Test(f) ==
                    \/ \E h \in 1..Len(common_hives) :
                            Contains(Upper(basename(f)), common_hives[h])
                    \/ splitext(basename(f))[2] = ""
            IN  SelectSeq(dir, Test)

\* The name of the output file in json_folder for an artifact file.
output_json(type, path, file_extension) ==
    LET root == splitext(basename(path))[1]
        stem == IF root = "" THEN basename(path) ELSE root
    IN  (IF type = "evtx" THEN "" ELSE type \o "_") \o stem \o file_extension

\* The file names a folder of each type may hold, in the order in which
\* the folder lists them.
FolderNames(type) ==
    CASE type = "evtx" -> <<"Security.evtx", "Security.EVTX", "System.evtx", "notes.txt">>
      [] type = "lnk" -> <<"a.lnk", "a.LNK", "b.lnk", "a.txt">>
      [] type = "amcache" -> <<"Amcache.hve", "old.hve", "Amcache.hve.LOG1", "readme.txt">>
      [] type = "mft" -> <<"$MFT", "$MFT.copy", "disk.mft", "notes.txt">>
      [] type = "registry" -> <<"SYSTEM", "SYSTEM.LOG1", "SAM", "u/NTUSER.DAT", "v/NTUSER.DAT">>

\* The folders of at most MaxFiles files.
Folders(type) ==
    LET all == FolderNames(type)
        Pick(keep) == LET Test(f) == f \in keep IN SelectSeq(all, Test)
    IN  {Pick(keep) : keep \in {k \in SUBSET {all[i] : i \in DOMAIN all} :
                                    Cardinality(k) \in 1..MaxFiles}}

InitOutputs ==
    /\ artifact \in {"evtx", "mft", "amcache", "lnk", "registry"}
    /\ folder \in Folders(artifact)
    /\ platform \in Platforms
    /\ found = <<>>
    /\ onext = 1
    /\ written = <<>>
    /\ opc = "search"
    /\ parser = "none" /\ pc = "idle" /\ nread = 0
    /\ entries = <<>> /\ lastrow = <<>> /\ lastdoc = <<"none">> /\ clock = 1
    /\ output = Absent /\ result = "none"
    /\ tool = "none" /\ tempdir = "none"
    /\ IdleNormalize
    /\ IdleFlatten
    /\ IdleRun
    /\ IdleRegistry
    /\ IdleCleanup
    /\ IdleRmtree
    /\ IdleOrganizer

\* The section builds its list of files.
Search ==
    /\ opc = "search"
    /\ found' = discover(artifact, folder)
    /\ opc' = "loop"
    /\ UNCHANGED <<coreVars, organizerVars, registryVars, cleanupVars, rmtreeVars, artifact, folder, onext, written>>

\* One iteration of the loop: the output path is made from the name of the
\* file, and a parse_file that returns True has opened it for writing.
ParseFound ==
    /\ opc = "loop"
    /\ onext <= Len(found)
    /\ \E ok \in BOOLEAN :
        written' = IF ok
                   THEN Append(written, output_json(artifact, found[onext],
                            IF platform = "timesketch" THEN ".jsonl" ELSE ".json"))
                   ELSE written
    /\ onext' = onext + 1
    /\ UNCHANGED <<coreVars, organizerVars, registryVars, cleanupVars, rmtreeVars, artifact, folder, found, opc>>

EndSection ==
    /\ opc = "loop"
    /\ onext > Len(found)
    /\ opc' = "end"
    /\ UNCHANGED <<coreVars, organizerVars, registryVars, cleanupVars, rmtreeVars, artifact, folder, found, onext, written>>

NextOutputs == Search \/ ParseFound \/ EndSection

SpecOutputs == InitOutputs /\ [][NextOutputs]_vars

(***************************************************************************)
(* main: the cleanup commands and the ingestion into Elasticsearch         *)
(***************************************************************************)

\* The characters of forbidden_chars: \s " * \ / < > ? | # : %
ForbiddenChars ==
    {" ", "\t", "\n", "\"", "*", "\\", "/", "<", ">", "?", "|", "#", ":", "%"}

\* re.sub(forbidden_chars, '_', name)
RECURSIVE SubForbidden(_)
SubForbidden(s) ==
    IF Len(s) = 0 THEN ""
    ELSE (IF Ch(s, 1) \in ForbiddenChars THEN "_" ELSE Ch(s, 1))
            \o SubForbidden(SubSeq(s, 2, Len(s)))

\* re.sub(r'_+', '_', sanitized)
RECURSIVE SubUnderscores(_)
SubUnderscores(s) ==
    IF Len(s) < 2 THEN s
    ELSE IF Ch(s, 1) = "_" /\ Ch(s, 2) = "_" THEN SubUnderscores(SubSeq(s, 2, Len(s)))
    ELSE Ch(s, 1) \o SubUnderscores(SubSeq(s, 2, Len(s)))

\* sanitized.strip('_')
RECURSIVE StripUnderscores(_)
StripUnderscores(s) ==
    IF Len(s) > 0 /\ Ch(s, 1) = "_" THEN StripUnderscores(SubSeq(s, 2, Len(s)))
    ELSE IF Len(s) > 0 /\ Ch(s, Len(s)) = "_"
    THEN StripUnderscores(SubSeq(s, 1, Len(s) - 1))
    ELSE s

\* ElasticsearchIngester.sanitize_index_name
sanitize_index_name(name) ==
    LET NotEmpty(x) == IF x = "" THEN "index" ELSE x
        Start(x) == IF Ch(x, 1) \in {"-", "_", "+"} THEN "idx" \o x ELSE x
        Limit(x) == IF Len(x) > 255 THEN SubSeq(x, 1, 255) ELSE x
    IN  Limit(Start(NotEmpty(Lower(StripUnderscores(SubUnderscores(SubForbidden(name)))))))

\* The name ingest_json_files gives the index of one JSON file.
index_name(base_name, json_basename) ==
    sanitize_index_name(sanitize_index_name(base_name) \o "_"
                            \o sanitize_index_name(json_basename))

\* The title create_index_pattern gives the index pattern of a case.
pattern_title(base_name) == sanitize_index_name(base_name) \o "_*"

\* The folders CleanupUtility goes through, in the order of base_folders
\* and json_folders, with the values of config.
CleanupFolders ==
    << "./evtx", "./mft", "./amcache", "./lnk", "./registry", "./other",
       "./jsons_elk", "./jsons_timesketch" >>

\* glob of the three log_patterns of clean_log2timeline_logs
is_log2timeline_log(name) ==
    /\ EndsWith(name, ".log.gz")
    /\ \/ StartsWith(name, "log2timeline-") /\ Len(name) >= 20
       \/ StartsWith(name, "psort-") /\ Len(name) >= 13
       \/ /\ StartsWith(name, "Worker_")
          /\ FindFrom(name, "_log2timeline-", 8) > 0
          /\ FindFrom(name, "_log2timeline-", 8) + 14 <= Len(name) - 6

\* CleanupUtility.clean_log2timeline_logs: the files os.remove deletes.
clean_log2timeline_logs(names) == {n \in names : is_log2timeline_log(n)}

\* CleanupUtility.clean_case_files from the k-th folder on: a case folder
\* that exists is removed unless dry_run; the rmtree of the folder `broken`
\* raises, which ends the method with False.
RECURSIVE clean_case_files_from(_, _, _, _, _, _)
clean_case_files_from(k, case_name, dry, broken, folders, gone) ==
    IF k > Len(CleanupFolders) THEN [ok |-> TRUE, folders |-> folders, gone |-> gone]
    ELSE IF <<CleanupFolders[k], case_name>> \notin folders \/ dry
    THEN clean_case_files_from(k + 1, case_name, dry, broken, folders, gone)
    ELSE IF CleanupFolders[k] = broken
    THEN [ok |-> FALSE, folders |-> folders, gone |-> gone]
    ELSE clean_case_files_from(k + 1, case_name, dry, broken,
            folders \ {<<CleanupFolders[k], case_name>>},
            gone \cup {<<"folder", CleanupFolders[k] \o "/" \o case_name>>})

clean_case_files(case_name, dry, broken, folders) ==
    clean_case_files_from(1, case_name, dry, broken, folders, {})

\* CleanupUtility.clean_case_indices_elk: up is the answer of es.ping().
\* Kibana's search of the titles for the sanitized name is taken to return
\* the index patterns whose title holds it.
clean_case_indices_elk(case_name, dry, up, idx, pats) ==
    LET sanitized_case == sanitize_index_name(case_name)
        \* es.cat.indices(index=f"*{sanitized_case}*")
        found_indices == {n \in idx : Contains(n, sanitized_case)}
        objects == {t \in pats : Contains(t, sanitized_case)}
    IN  IF ~up THEN [ok |-> FALSE, indices |-> idx, patterns |-> pats, gone |-> {}]
        ELSE IF found_indices = {} \/ dry
        THEN [ok |-> TRUE, indices |-> idx, patterns |-> pats, gone |-> {}]
        ELSE [ok |-> TRUE, indices |-> idx \ found_indices, patterns |-> pats \ objects,
              gone |-> {<<"index", n>> : n \in found_indices}
                        \cup {<<"pattern", t>> : t \in objects}]

\* CleanupUtility.clean_all_indices_elk with the pattern '*': confirm is
\* the answer to the question it asks; Kibana returns every index pattern.
clean_all_indices_elk(dry, up, confirm, idx, pats) ==
    LET found_indices == {n \in idx : ~StartsWith(n, ".")}
        objects == pats
    IN  IF ~up THEN [ok |-> FALSE, indices |-> idx, patterns |-> pats, gone |-> {}]
        ELSE IF found_indices = {} \/ dry
        THEN [ok |-> TRUE, indices |-> idx, patterns |-> pats, gone |-> {}]
        ELSE IF ~confirm
        THEN [ok |-> FALSE, indices |-> idx, patterns |-> pats, gone |-> {}]
        ELSE [ok |-> TRUE, indices |-> idx \ found_indices, patterns |-> pats \ objects,
              gone |-> {<<"index", n>> : n \in found_indices}
                        \cup {<<"pattern", t>> : t \in objects}]

\* The case names, the JSON files of a case and the files of the working
\* directory the commands are tried on.
CaseNames == {"Case 1", "case 10"}
JsonBasenames == {"Security", "mft_$MFT"}
LogNames ==
    {"log2timeline-20240115.log.gz", "psort-20240115.log.gz",
     "Worker_0_log2timeline-20240115.log.gz", "setup.log"}

\* The case folders the organizer and the parsers have made.
CaseFolderSets ==
    { {},
      {<<"./evtx", "Case 1">>, <<"./jsons_elk", "Case 1">>, <<"./evtx", "case 10">>},
      {<<CleanupFolders[k], c>> : k \in DOMAIN CleanupFolders, c \in CaseNames} }

InitCleanup ==
    /\ case_folders \in CaseFolderSets
    /\ log_files \in {{"setup.log"}, LogNames}
    /\ indices = {}
    /\ index_patterns = {}
    /\ command = "none"
    /\ dry_run = FALSE
    /\ target = ""
    /\ deleted = {}
    /\ exit_status = 0
    /\ IdleParse
    /\ IdleNormalize
    /\ IdleFlatten
    /\ IdleRun
    /\ IdleRegistry
    /\ IdleOutput
    /\ IdleRmtree
    /\ IdleOrganizer

\* No cleanup command ran yet: a behaviour is followed up to its first
\* cleanup command.
BeforeCleanup == command \in {"none", "ingest"}

\* main with --platform elk and parsing options: the JSON files of the case
\* are ingested, each into its index, and the index pattern is created when
\* documents were ingested.
MainIngest ==
    /\ BeforeCleanup
    /\ \E case_name \in CaseNames, json_files \in SUBSET JsonBasenames,
          up \in BOOLEAN, docs \in BOOLEAN :
        /\ command' = "ingest"
        /\ target' = case_name
        /\ exit_status' = IF up THEN 0 ELSE 1
        /\ indices' = IF up
                      THEN indices \cup {index_name(case_name, f) : f \in json_files}
                      ELSE indices
        /\ index_patterns' = IF up /\ json_files # {} /\ docs
                             THEN index_patterns \cup {pattern_title(case_name)}
                             ELSE index_patterns
    /\ dry_run' = FALSE
    /\ deleted' = {}
    /\ UNCHANGED <<coreVars, organizerVars, registryVars, outputVars, rmtreeVars, case_folders, log_files>>

\* main with --clean-logs: the first test of main, before any other option
\* and whatever --dry-run says.
MainCleanLogs ==
    /\ BeforeCleanup
    /\ \E dry \in BOOLEAN : dry_run' = dry
    /\ command' = "clean_logs"
    /\ target' = ""
    /\ log_files' = log_files \ clean_log2timeline_logs(log_files)
    /\ deleted' = {<<"file", n>> : n \in clean_log2timeline_logs(log_files)}
    /\ exit_status' = 0
    /\ UNCHANGED <<coreVars, organizerVars, registryVars, outputVars, rmtreeVars, case_folders, indices,
                   index_patterns>>

\* main with --clean-case: the files of the case, then its indices if the
\* platform is elk.
MainCleanCase ==
    /\ BeforeCleanup
    /\ \E case_name \in CaseNames, dry \in BOOLEAN, plat \in {"elk", "timesketch"},
          up \in BOOLEAN, broken \in {"none", "./jsons_elk"} :
        LET Apply(fs, es) ==
                /\ case_folders' = fs.folders
                /\ indices' = es.indices
                /\ index_patterns' = es.patterns
                /\ deleted' = fs.gone \cup es.gone
                /\ exit_status' = IF fs.ok /\ es.ok THEN 0 ELSE 1
            Untouched == [ok |-> TRUE, indices |-> indices,
                          patterns |-> index_patterns, gone |-> {}]
            Indices(fs) ==
                Apply(fs, IF fs.ok /\ plat = "elk"
                          THEN clean_case_indices_elk(case_name, dry, up,
                                                      indices, index_patterns)
                          ELSE Untouched)
        IN  /\ dry_run' = dry
            /\ target' = case_name
            /\ Indices(clean_case_files(case_name, dry, broken, case_folders))
    /\ command' = "clean_case"
    /\ UNCHANGED <<coreVars, organizerVars, registryVars, outputVars, rmtreeVars, log_files>>

\* main with --clean-case-indices.
MainCleanCaseIndices ==
    /\ BeforeCleanup
    /\ \E case_name \in CaseNames, dry \in BOOLEAN, up \in BOOLEAN :
        LET Apply(es) ==
                /\ indices' = es.indices
                /\ index_patterns' = es.patterns
                /\ deleted' = es.gone
                /\ exit_status' = IF es.ok THEN 0 ELSE 1
        IN  /\ dry_run' = dry
            /\ target' = case_name
            /\ Apply(clean_case_indices_elk(case_name, dry, up,
                                            indices, index_patterns))
    /\ command' = "clean_case_indices"
    /\ UNCHANGED <<coreVars, organizerVars, registryVars, outputVars, rmtreeVars, case_folders, log_files>>

\* main with --clean-all-indices.
MainCleanAllIndices ==
    /\ BeforeCleanup
    /\ \E dry \in BOOLEAN, up \in BOOLEAN, confirm \in BOOLEAN :
        LET Apply(es) ==
                /\ indices' = es.indices
                /\ index_patterns' = es.patterns
                /\ deleted' = es.gone
                /\ exit_status' = IF es.ok THEN 0 ELSE 1
        IN  /\ dry_run' = dry
            /\ Apply(clean_all_indices_elk(dry, up, confirm,
                                           indices, index_patterns))
    /\ command' = "clean_all_indices"
    /\ target' = ""
    /\ UNCHANGED <<coreVars, organizerVars, registryVars, outputVars, rmtreeVars, case_folders, log_files>>

NextCleanup ==
    \/ MainIngest
    \/ MainCleanLogs
    \/ MainCleanCase
    \/ MainCleanCaseIndices
    \/ MainCleanAllIndices

SpecCleanup == InitCleanup /\ [][NextCleanup]_vars

(***************************************************************************)
(* safe_rmtree, called in the 'finally' of parse_file                      *)
(***************************************************************************)

\* The greatest max_attempts tried; parse_file calls with the default 5.
MaxAttempts == 5

\* A wait after every failed attempt, the last one included.
after_failure_always_sleep(i, n) == "sleep"

\* The handler of PermissionError and OSError in attempt i of n: wait and
\* go on, or give up with False after the last attempt.
after_failure(i, n) == IF i < n - 1 THEN "sleep" ELSE "false"

\* parse_file has executed a return statement and enters its 'finally',
\* where safe_rmtree starts on the directory of the tool's CSVs.
InitRmtree ==
    /\ max_attempts \in 0..MaxAttempts
    /\ attempt = 0
    /\ temp_exists \in BOOLEAN
    /\ outcome = "none"
    /\ failed_attempts = 0
    /\ sleeps = 0
    /\ rmtree_result = "none"
    /\ pf_return \in {"true", "false"}
    /\ pf_result = "none"
    /\ IdleParse
    /\ IdleNormalize
    /\ IdleFlatten
    /\ IdleRun
    /\ IdleRegistry
    /\ IdleOutput
    /\ IdleCleanup
    /\ IdleOrganizer

\* One pass of 'for attempt in range(max_attempts)': the directory is not
\* there, possibly removed by someone else since the last pass, or
\* shutil.rmtree removes it, or shutil.rmtree raises.
RmtreeAttempt ==
    /\ rmtree_result = "none"
    /\ attempt < max_attempts
    /\ \E o \in {"absent", "removed", "raised"} :
        /\ o = "removed" => temp_exists
        /\ o = "raised" => temp_exists
        /\ outcome' = o
        /\ IF o = "raised"
           THEN /\ failed_attempts' = failed_attempts + 1
                /\ \E still \in BOOLEAN : temp_exists' = still
                /\ IF after_failure(attempt, max_attempts) = "sleep"
                   THEN /\ sleeps' = sleeps + 1
                        /\ attempt' = attempt + 1
                        /\ UNCHANGED rmtree_result
                   ELSE /\ rmtree_result' = "false"
                        /\ UNCHANGED <<sleeps, attempt>>
           ELSE /\ temp_exists' = FALSE
                /\ rmtree_result' = "true"
                /\ UNCHANGED <<failed_attempts, sleeps, attempt>>
    /\ UNCHANGED <<coreVars, organizerVars, registryVars, outputVars, cleanupVars,
                   max_attempts, pf_return, pf_result>>

\* The loop ended without a return: 'return False' after it.
RmtreeExhausted ==
    /\ rmtree_result = "none"
    /\ attempt >= max_attempts
    /\ rmtree_result' = "false"
    /\ UNCHANGED <<coreVars, organizerVars, registryVars, outputVars, cleanupVars,
                   max_attempts, attempt, temp_exists, outcome, failed_attempts,
                   sleeps, pf_return, pf_result>>

\* The 'finally' is over: the value of safe_rmtree is dropped and the
\* caller receives the value of the return statement.
ParseFileReturns ==
    /\ rmtree_result # "none"
    /\ pf_result = "none"
    /\ pf_result' = pf_return
    /\ UNCHANGED <<coreVars, organizerVars, registryVars, outputVars, cleanupVars,
                   max_attempts, attempt, temp_exists, outcome, failed_attempts,
                   sleeps, rmtree_result, pf_return>>

NextRmtree == RmtreeAttempt \/ RmtreeExhausted \/ ParseFileReturns

SpecRmtree == InitRmtree /\ [][NextRmtree]_vars

(***************************************************************************)
(* FileOrganizer.organize_files                                            *)
(***************************************************************************)

\* The keys of files_by_type, in the order find_files_recursive inserts
\* them.
FileTypes == <<"evtx", "mft", "amcache", "lnk", "registry", "other">>

\* FileOrganizer.base_folders, as main builds it from config.py.
base_folders(file_type) == "./" \o file_type

\* os.path.join of a directory and a name
join(dir, name) == dir \o "/" \o name

\* os.path.dirname
dirname(path) == SubSeq(path, 1, RFind(path, "/") - 1)

\* TRUE iff the path lies below the directory.
Below(dir, path) == StartsWith(path, dir \o "/")

\* os.path.exists on a disk d of files: a file, or a directory that holds
\* one.
exists(d, path) == path \in d \/ \E p \in d : Below(path, p)

\* str(n) for a natural number
RECURSIVE decimal(_)
decimal(n) == IF n < 10 THEN DigitCh(n) ELSE decimal(n \div 10) \o DigitCh(n % 10)

exact_names == {"SYSTEM", "SOFTWARE", "SAM", "SECURITY", "DEFAULT"}
exact_names_with_ext == {"NTUSER.DAT", "ntuser.dat", "UsrClass.dat", "usrclass.dat"}

\* FileOrganizer.identify_file_type
identify_file_type(filepath) ==
    LET filename == basename(filepath)
        filename_lower == Lower(basename(filepath))
        file_ext == Lower(splitext(filepath)[2])
        base == splitext(basename(filepath))[1]
    IN  IF file_ext = ".evtx" THEN "evtx"
        ELSE IF file_ext = ".lnk" THEN "lnk"
        ELSE IF filename \in {"$MFT", "$mft"} \/ StartsWith(filename_lower, "$mft")
        THEN "mft"
        ELSE IF file_ext = ".mft" \/ (Contains(filename_lower, "mft") /\ file_ext = "")
        THEN "mft"
        ELSE IF /\ Contains(filename_lower, "amcache")
                /\ file_ext \in {".hve", ".log", ".log1", ".log2", ""}
        THEN "amcache"
        ELSE IF /\ base \in exact_names
                /\ file_ext \notin {".pf", ".etl", ".log", ".txt", ".dat", ".db", ".csv"}
        THEN "registry"
        ELSE IF filename \in exact_names_with_ext THEN "registry"
        ELSE IF /\ file_ext \in {".log1", ".log2"}
                /\ \/ base \in exact_names
                   \/ (base \o ".DAT") \in exact_names_with_ext
                   \/ (base \o ".dat") \in exact_names_with_ext
        THEN "registry"
        ELSE "other"

\* The files find_files_recursive keeps of a walk of source_dir: hidden and
\* temporary names are skipped.
walked(d, dir) ==
    {p \in d : /\ Below(dir, p)
               /\ ~StartsWith(basename(p), ".")
               /\ ~StartsWith(basename(p), "~")}

\* The orders in which os.walk can yield the files: a directory's files
\* together and before those of the directories below it, in the order the
\* directory lists them.
walk_orders(d, dir) ==
    LET found_files == walked(d, dir)
        n == Cardinality(walked(d, dir))
    IN  {order \in [1..n -> found_files] :
            /\ \A i, j \in 1..n : i # j => order[i] # order[j]
            /\ \A i, j \in 1..n :
                    i < j => ~Below(dirname(order[j]), order[i])
            /\ \A i, j, k \in 1..n :
                    (i < j /\ j < k /\ dirname(order[i]) = dirname(order[k]))
                        => dirname(order[j]) = dirname(order[i])}

\* FileOrganizer.find_files_recursive on one walk: the files of each type,
\* in the order of the walk.
find_files_recursive(order) ==
    [t \in {FileTypes[i] : i \in DOMAIN FileTypes} |->
        LET OfType(p) == identify_file_type(p) = t IN SelectSeq(order, OfType)]

\* The files of all types one after the other, as the two loops of
\* organize_files take them.
RECURSIVE in_loop_order(_, _)
in_loop_order(by_type, i) ==
    IF i > Len(FileTypes) THEN <<>>
    ELSE by_type[FileTypes[i]] \o in_loop_order(by_type, i + 1)

\* The 'while os.path.exists(dest_path)' loop: the first
\* '<base>_<counter><ext>' that does not exist.
RECURSIVE first_free(_, _, _, _, _)
first_free(d, dest_folder, base, ext, counter) ==
    IF exists(d, join(dest_folder, base \o "_" \o decimal(counter) \o ext))
    THEN first_free(d, dest_folder, base, ext, counter + 1)
    ELSE join(dest_folder, base \o "_" \o decimal(counter) \o ext)

\* The destination organize_files chooses for a file name.
dest_path(d, dest_folder, filename) ==
    IF exists(d, join(dest_folder, filename))
    THEN first_free(d, dest_folder, splitext(filename)[1], splitext(filename)[2], 1)
    ELSE join(dest_folder, filename)

\* The case_name argument.
OrganizedCase == "c"

\* The destination folder of each type for the case.
DestFolders == {join(base_folders(FileTypes[i]), OrganizedCase) : i \in DOMAIN FileTypes}

\* The files of a disk that lie in the destination folders.
InDest(d) == {p \in d : \E f \in DestFolders : Below(f, p)}

\* The paths a disk can hold before the call: evidence in a directory and
\* below it, a hidden file, and files organized earlier.
DiskPaths ==
    {"in/a.evtx", "in/sub/a.evtx", "in/SYSTEM", "in/.a.evtx",
     "./evtx/c/a.evtx", "./evtx/c/a_1.evtx"}

\* The directories named on the command line: the evidence, the folder of
\* the event logs, and one that does not exist.
SourceDirs == {"in", "./evtx", "nowhere"}

\* What shutil.copy2 or shutil.move can do: succeed, raise before the
\* destination is written, or raise after it was (copystat or the removal
\* of the source failed).
CopyOutcomes == {"ok", "error", "left"}

InitOrganize ==
    /\ disk \in SUBSET DiskPaths
    /\ source_dir \in SourceDirs
    /\ copy_mode \in BOOLEAN
    /\ files_by_type = <<>>
    /\ pending = <<>>
    /\ disk_before = disk
    /\ total_organized = 0
    /\ clobbered = FALSE
    /\ orgpc = "start"
    /\ org_result = "none"
    /\ IdleParse
    /\ IdleNormalize
    /\ IdleFlatten
    /\ IdleRun
    /\ IdleRegistry
    /\ IdleOutput
    /\ IdleCleanup
    /\ IdleRmtree

\* organize_files up to its loops: the test of the source directory and
\* find_files_recursive.
OrganizeStart ==
    /\ orgpc = "start"
    /\ IF ~exists(disk, source_dir)
       THEN /\ org_result' = "false"
            /\ orgpc' = "done"
            /\ UNCHANGED <<files_by_type, pending>>
       ELSE /\ \E order \in walk_orders(disk, source_dir) :
                /\ files_by_type' = find_files_recursive(order)
                /\ pending' = in_loop_order(find_files_recursive(order), 1)
            /\ orgpc' = "loop"
            /\ UNCHANGED org_result
    /\ UNCHANGED <<disk, source_dir, copy_mode, disk_before, total_organized, clobbered>>
    /\ UNCHANGED <<coreVars, registryVars, outputVars, cleanupVars, rmtreeVars>>

\* One turn of the inner loop: the destination is chosen, and the file is
\* copied or moved; an exception is printed and the loop goes on.
OrganizeFile ==
    /\ orgpc = "loop"
    /\ pending # <<>>
    /\ LET filepath == Head(pending)
           target_path == dest_path(disk,
                                    join(base_folders(identify_file_type(Head(pending))),
                                         OrganizedCase),
                                    basename(Head(pending)))
       IN  \E o \in CopyOutcomes :
            /\ disk' = IF o = "error" THEN disk
                       ELSE IF o = "ok" /\ ~copy_mode
                            THEN (disk \ {filepath}) \cup {target_path}
                            ELSE disk \cup {target_path}
            /\ total_organized' = IF o = "ok" THEN total_organized + 1
                                  ELSE total_organized
            /\ clobbered' = (clobbered \/ (o # "error" /\ exists(disk, target_path)))
    /\ pending' = Tail(pending)
    /\ UNCHANGED <<source_dir, copy_mode, files_by_type, disk_before, orgpc, org_result>>
    /\ UNCHANGED <<coreVars, registryVars, outputVars, cleanupVars, rmtreeVars>>

\* The return after the loops.
OrganizeReturn ==
    /\ orgpc = "loop"
    /\ pending = <<>>
    /\ org_result' = IF total_organized > 0 THEN "true" ELSE "false"
    /\ orgpc' = "done"
    /\ UNCHANGED <<disk, source_dir, copy_mode, files_by_type, pending, disk_before,
                   total_organized, clobbered>>
    /\ UNCHANGED <<coreVars, registryVars, outputVars, cleanupVars, rmtreeVars>>

NextOrganize == OrganizeStart \/ OrganizeFile \/ OrganizeReturn

SpecOrganize == InitOrganize /\ [][NextOrganize]_vars

(***************************************************************************)
(* Properties of the written file                                          *)
(***************************************************************************)

\* TRUE iff the document carries the canonical timestamp field of the backend.
HasCanonical(doc) == ts_key(platform) \in DOMAIN doc

\* The canonical timestamp of a document read as a plain string, "" for a
\* document without the field.
CanonicalText(doc) ==
    IF ~HasCanonical(doc) THEN ""
    ELSE IF parser = "evtx" THEN doc[ts_key(platform)].s
    ELSE doc[ts_key(platform)]

\* C1: whenever parse_file has written an output file, its documents are in
\* non-decreasing order of the canonical timestamp field compared as plain
\* strings, a document without the field counting as the empty string and
\* standing before every document that has the field.
C1_SortedOutput ==
    output # Absent =>
        \A i, j \in 1..Len(output[2]) :
            i < j =>
                /\ StrLe(CanonicalText(output[2][i]), CanonicalText(output[2][j]))
                /\ HasCanonical(output[2][i]) => HasCanonical(output[2][j])

\* The EVTX parser wrote two documents, the one without the field first,
\* although it stood second in the list before sorting.
C1_Witness ==
    /\ parser = "evtx"
    /\ output # Absent
    /\ Len(output[2]) = 2
    /\ ~HasCanonical(output[2][1])
    /\ HasCanonical(output[2][2])
    /\ entries[1] = output[2][2]

(***************************************************************************)
(* Properties of the timestamp resolver of the CSV parsers                 *)
(***************************************************************************)

Range(seq) == {seq[i] : i \in 1..Len(seq)}

\* The orders in which the elements of the set S can be visited.
Orders(S) ==
    {o \in [1..Cardinality(S) -> S] : \A i, j \in 1..Cardinality(S) : o[i] = o[j] => i = j}

Reverse(seq) == [i \in 1..Len(seq) |-> seq[Len(seq) + 1 - i]]

\* The row read last by a CSV parser became a document.
CsvDocument == parser \in CsvParsers /\ lastdoc[1] = "doc"

\* The sanitized record of each row.
SanitizedRows == [p \in CsvParsers |-> [row \in Rows(p) |-> sanitize(row)]]

\* The values the sanitized records of parser p hold.
CellValues(p) ==
    UNION {{SanitizedRows[p][row][k] : k \in DOMAIN SanitizedRows[p][row]} :
             row \in Rows(p)}

\* What the timestamp parser of each class returns for each of them.
ParsedValues == [p \in CsvParsers |-> [v \in CellValues(p) |-> parse_ts(p, v)]]

\* The candidate fields a sanitized record holds, and those among them
\* whose value the timestamp parser accepts.
Present(entry) == {f \in Range(timestamp_fields(parser)) : f \in DOMAIN entry}
Parsed(entry) == {f \in Present(entry) : ParsedValues[parser][entry[f]] # None}

\* The documents a row gives when its candidate fields are visited in the
\* other orders: every order of those present, and the whole list reversed.
ReorderedDocuments ==
    [p \in CsvParsers |-> [plat \in Platforms |-> [row \in Rows(p) |->
        [c \in 1..Len(NowValues) |->
            {shape_row(p, plat, order, SanitizedRows[p][row], NowValues[c]) :
                order \in Orders({f \in Range(timestamp_fields(p)) :
                                    f \in DOMAIN SanitizedRows[p][row]})
                          \cup {Reverse(timestamp_fields(p))}}]]]]

\* C2: for every row of a CSV parser, each candidate field that is present
\* and parses is stored under '<field>_iso' and no other candidate is; the
\* canonical timestamp is the greatest, as a string, of exactly the parsed
\* values; a candidate that does not parse does not abort the row; and the
\* document is the same for every order of visiting the candidate fields.
C2_ResolverMaximum ==
    /\ (parser \in CsvParsers /\ nread > 0 /\ SanitizedRows[parser][lastrow] # EmptyEntry)
            => lastdoc[1] = "doc"
    /\ CsvDocument =>
        LET entry == SanitizedRows[parser][lastrow]
            d == lastdoc[2]
            values == {ParsedValues[parser][entry[f]][1] : f \in Parsed(entry)}
        IN  /\ \A f \in Parsed(entry) :
                    /\ (f \o "_iso") \in DOMAIN d
                    /\ d[f \o "_iso"] = ParsedValues[parser][entry[f]][1]
            /\ \A f \in Range(timestamp_fields(parser)) \ Parsed(entry) :
                    (f \o "_iso") \notin DOMAIN d
            /\ values # {} =>
                    /\ d[ts_key(platform)] \in values
                    /\ \A v \in values : StrLe(v, d[ts_key(platform)])
            /\ ReorderedDocuments[parser][platform][lastrow][clock] = {d}

\* A row with two candidates that parse to different values, one of which
\* is not the canonical timestamp.
C2_Witness ==
    /\ CsvDocument
    /\ Cardinality({ParsedValues[parser][SanitizedRows[parser][lastrow][f]][1] :
                        f \in Parsed(SanitizedRows[parser][lastrow])}) = 2
    /\ \E f \in Parsed(SanitizedRows[parser][lastrow]) :
            lastdoc[2][f \o "_iso"] # lastdoc[2][ts_key(platform)]

\* The datetime the timestamp parser of each class arrives at for each
\* value.
DatetimeValues ==
    [p \in CsvParsers |-> [v \in CellValues(p) |->
        IF p = "mft" THEN mft_datetime(v) ELSE generic_datetime(v)]]

\* The number of days from 0001-01-01 to the date of dt, that day included.
RECURSIVE DaysBeforeMonth(_, _)
DaysBeforeMonth(y, m) ==
    IF m = 1 THEN 0 ELSE DaysBeforeMonth(y, m - 1) + DaysInMonth(y, m - 1)

Ordinal(dt) ==
    365 * (dt.Y - 1) + ((dt.Y - 1) \div 4) - ((dt.Y - 1) \div 100)
    + ((dt.Y - 1) \div 400) + DaysBeforeMonth(dt.Y, dt.mo) + dt.d

\* The instant a datetime denotes: the minutes since 0001-01-01T00:00 UTC,
\* the seconds and the microseconds.  A naive datetime is taken as UTC, as
\* the 'Z' the parsers append says.
Instant(dt) == <<1440 * Ordinal(dt) + 60 * dt.H + dt.M - dt.off, dt.S, dt.us>>

\* a is not later than b.
NotLater(a, b) ==
    \/ a[1] < b[1]
    \/ a[1] = b[1] /\ a[2] < b[2]
    \/ a[1] = b[1] /\ a[2] = b[2] /\ a[3] <= b[3]

\* C3: for every record with at least two parsed candidates, the canonical
\* timestamp is the value of a candidate that no other candidate is later
\* than: the greatest string is the most recent instant.
C3_StringMaxIsLatest ==
    CsvDocument =>
        LET entry == SanitizedRows[parser][lastrow]
            d == lastdoc[2]
            instant(f) == Instant(DatetimeValues[parser][entry[f]][1])
        IN  Cardinality(Parsed(entry)) >= 2 =>
                \E g \in Parsed(entry) :
                    /\ ParsedValues[parser][entry[g]][1] = d[ts_key(platform)]
                    /\ \A f \in Parsed(entry) : NotLater(instant(f), instant(g))

\* datetime.now().isoformat() + 'Z' at each value of the clock.
NowTexts == [c \in 1..Len(NowValues) |-> isoformat(NowValues[c]) \o "Z"]

\* TRUE iff the record the document was made of holds a candidate that
\* parses (CSV parsers) or the creation time of the event (EVTX parser).
HasCandidate ==
    IF parser = "evtx" THEN SystemTimeKey \in DOMAIN lastdoc[2]
    ELSE Parsed(SanitizedRows[parser][lastrow]) # {}

\* C4: every document of every parser carries the canonical timestamp field
\* of the backend, and when the record has no candidate that parses, the
\* EVTX record without the creation time of the event included, the field
\* holds the current time.
C4_AlwaysStamped ==
    lastdoc[1] = "doc" =>
        /\ HasCanonical(lastdoc[2])
        /\ ~HasCandidate => CanonicalText(lastdoc[2]) = NowTexts[clock]

(***************************************************************************)
(* The 'never set' sentinel of the MFT parser                              *)
(***************************************************************************)

RECURSIVE AllZeros(_)
AllZeros(s) == Len(s) = 0 \/ (Ch(s, 1) = "0" /\ AllZeros(SubSeq(s, 2, Len(s))))

\* The values of MFTECmd's CSV that spell the FILETIME epoch: the date and
\* time, alone or followed by a fraction of zeros.
EpochSpellings ==
    {v \in CellValues("mft") :
        \/ v = "1601-01-01 00:00:00"
        \/ /\ StartsWith(v, "1601-01-01 00:00:00.")
           /\ Len(v) > 20
           /\ AllZeros(SubSeq(v, 21, Len(v)))}

\* The two spellings parse_mft_timestamp compares with.
ListedSpellings == {"1601-01-01 00:00:00", "1601-01-01 00:00:00.0000000"}

\* The MFT row read last holds one candidate field only, f, and its value
\* is one of the given spellings.
OnlySentinel(f, spellings) ==
    /\ parser = "mft"
    /\ nread > 0
    /\ Present(SanitizedRows[parser][lastrow]) = {f}
    /\ SanitizedRows[parser][lastrow][f] \in spellings

\* The row became a document without '<f>_iso' whose canonical timestamp is
\* the current time.
FallsBack(f) ==
    /\ lastdoc[1] = "doc"
    /\ (f \o "_iso") \notin DOMAIN lastdoc[2]
    /\ lastdoc[2][ts_key(platform)] = NowTexts[clock]

\* C5 as stated: an MFT row whose only candidate field holds the epoch in
\* any of its spellings gets the current time as canonical timestamp and no
\* '<field>_iso'.
C5_AnySpelling ==
    \A f \in Range(mft_timestamp_fields) :
        OnlySentinel(f, EpochSpellings) => FallsBack(f)

\* C5: an MFT row whose only candidate field holds '1601-01-01 00:00:00' or
\* '1601-01-01 00:00:00.0000000' becomes a document without '<field>_iso'
\* whose canonical timestamp is the current time.
C5_ListedSpellings ==
    \A f \in Range(mft_timestamp_fields) :
        OnlySentinel(f, ListedSpellings) => FallsBack(f)

\* A row whose only candidate is the spelling with seven sub-second digits.
C5_Witness ==
    /\ OnlySentinel("modified0x10", {"1601-01-01 00:00:00.0000000"})
    /\ FallsBack("modified0x10")

(***************************************************************************)
(* The scenario of the six sub-second digits                               *)
(***************************************************************************)

ScenarioRow ==
    << <<"Created0x10", "2024-01-15 14:30:45.1234567">>,
       <<"Modified0x10", "1601-01-01 00:00:00">> >>

\* C7: the MFT row with Created0x10 = '2024-01-15 14:30:45.1234567' and
\* Modified0x10 = '1601-01-01 00:00:00' becomes a document with
\* created0x10_iso = '2024-01-15T14:30:45.123456Z', without modified0x10_iso
\* and with the canonical timestamp equal to created0x10_iso; a shorter
\* fraction is padded to six digits.
C7_SixDigits ==
    /\ (parser = "mft" /\ lastrow = ScenarioRow) =>
            /\ lastdoc[1] = "doc"
            /\ "created0x10_iso" \in DOMAIN lastdoc[2]
            /\ lastdoc[2]["created0x10_iso"] = "2024-01-15T14:30:45.123456Z"
            /\ "modified0x10_iso" \notin DOMAIN lastdoc[2]
            /\ lastdoc[2][ts_key(platform)] = lastdoc[2]["created0x10_iso"]
    /\ (/\ CsvDocument
        /\ parser = "mft"
        /\ "modified0x10" \in DOMAIN lastdoc[2]
        /\ lastdoc[2]["modified0x10"] = "2024-01-15 14:30:45.5") =>
            /\ "modified0x10_iso" \in DOMAIN lastdoc[2]
            /\ lastdoc[2]["modified0x10_iso"] = "2024-01-15T14:30:45.500000Z"

\* The row of the scenario was read and became a document.
C7_Witness ==
    /\ parser = "mft"
    /\ lastrow = ScenarioRow
    /\ lastdoc[1] = "doc"
    /\ lastdoc[2]["created0x10_iso"] = "2024-01-15T14:30:45.123456Z"

\* The timestamp fields of the MFT parser that hold a time.
TemporalFields ==
    LET Temporal(f) == f # "mftrecordnumber" IN SelectSeq(mft_timestamp_fields, Temporal)

\* C24: no document of the MFT parser has the field 'mftrecordnumber_iso',
\* and when other candidates of the row parse, the canonical timestamp is
\* the greatest of those, whatever the column of the record number holds.
C24_RecordNumberNoCandidate ==
    (CsvDocument /\ parser = "mft") =>
        LET d == lastdoc[2]
            others == resolve("mft", TemporalFields, SanitizedRows["mft"][lastrow]).timestamps
        IN  /\ "mftrecordnumber_iso" \notin DOMAIN d
            /\ others # <<>> => d[ts_key(platform)] = str_max(others)

(***************************************************************************)
(* The field sanitizer                                                     *)
(***************************************************************************)

\* C8: the record the sanitizer makes of a CSV row has no empty key and no
\* empty or blank value, a cell whose key is empty or blank being dropped;
\* and a row whose record is empty produces no document.
C8_SanitizedRecord ==
    (parser \in CsvParsers /\ nread > 0) =>
        LET e == SanitizedRows[parser][lastrow] IN
        /\ "" \notin DOMAIN e
        /\ \A k \in DOMAIN e : Strip(e[k]) # ""
        /\ \A i \in 1..Len(lastrow) :
                Strip(lastrow[i][1]) = "" => clean_key(lastrow[i][1]) \notin DOMAIN e
        /\ e = EmptyEntry <=> lastdoc[1] = "skip"
        /\ lastdoc[1] = "doc" => "" \notin DOMAIN lastdoc[2]

(***************************************************************************)
(* The creation time of an event-log record                                *)
(***************************************************************************)

\* The value found in v by following the keys of path, None when the path
\* leaves the mappings.
RECURSIVE Nested(_, _)
Nested(v, path) ==
    IF path = <<>> THEN Some(v)
    ELSE IF v.t = "dict" /\ HasKey(v.kids, Head(path))
         THEN Nested(Lookup(v.kids, Head(path)), Tail(path))
         ELSE None

\* The leaves of a value, each with the keys that lead to it.
RECURSIVE LeafPaths(_, _)
LeafPaths(v, path) ==
    IF v.t = "dict"
    THEN UNION {LeafPaths(v.kids[i].v, Append(path, v.kids[i].k)) : i \in 1..Len(v.kids)}
    ELSE {<<path, v>>}

\* The key under which the flattener files the leaf at the end of a path.
RECURSIVE FlatKey(_)
FlatKey(path) ==
    IF path = <<>> THEN ""
    ELSE compose_key(FlatKey(SubSeq(path, 1, Len(path) - 1)), path[Len(path)], "_")

\* TRUE iff the text would be taken for an XML document.
LooksLikeXml(text) == StartsWith(Strip(text), "<")

SystemTimePath == <<"System", "TimeCreated", "#attributes", "SystemTime">>

\* The JSON lines whose record nests a string along the path.
LinesNesting(path) ==
    {line \in EvtxLines :
        /\ line.kind = "json"
        /\ Nested(line.v, path) # None
        /\ Nested(line.v, path)[1].t = "str"}

RootlessLines == LinesNesting(SystemTimePath)

\* The lines with a record rooted at 'Event' whose creation time is a
\* non-empty string that is no XML, and where no other field is an XML
\* string or is filed under the key of the creation time.
EventLines ==
    {line \in LinesNesting(<<"Event">> \o SystemTimePath) :
        /\ Nested(line.v, <<"Event">> \o SystemTimePath)[1].s # ""
        /\ \A leaf \in LeafPaths(line.v, <<>>) :
                /\ leaf[2].t = "str" => ~LooksLikeXml(leaf[2].s)
                /\ FlatKey(leaf[1]) = SystemTimeKey
                        => leaf[1] = <<"Event">> \o SystemTimePath}

\* The line read last became a document that holds T under key and under
\* the canonical timestamp field of the backend.
StampedWith(key, T) ==
    /\ lastdoc[1] = "doc"
    /\ key \in DOMAIN lastdoc[2]
    /\ lastdoc[2][key] = T
    /\ HasCanonical(lastdoc[2])
    /\ lastdoc[2][ts_key(platform)] = T

C9_Idempotent == napplied = 2 => nkey = nprev

(***************************************************************************)
(* Flattening and re-nesting                                               *)
(***************************************************************************)

\* '_'.join(path)
RECURSIVE JoinPath(_)
JoinPath(path) ==
    IF Len(path) = 0 THEN ""
    ELSE IF Len(path) = 1 THEN path[1]
    ELSE path[1] \o "_" \o JoinPath(Tail(path))

\* key.split('_')
RECURSIVE SplitFrom(_, _, _)
SplitFrom(key, i, word) ==
    IF i > Len(key) THEN <<word>>
    ELSE IF Ch(key, i) = "_" THEN <<word>> \o SplitFrom(key, i + 1, "")
    ELSE SplitFrom(key, i + 1, word \o Ch(key, i))
SplitPath(key) == SplitFrom(key, 1, "")

\* The leaves of the mapping that re-nesting a flat record along '_' gives.
Renested(flat) == {<<SplitPath(key), flat[key]>> : key \in DOMAIN flat}

\* The keys of a value's mappings, at every depth.
RECURSIVE AllKeys(_)
AllKeys(v) ==
    IF v.t # "dict" THEN {}
    ELSE UNION {{v.kids[i].k} \cup AllKeys(v.kids[i].v) : i \in 1..Len(v.kids)}

\* The flat record holds every leaf of d under the joined path of its keys,
\* holds nothing else, and re-nests to the leaves of d.
LeavesPreserved(d, out) ==
    /\ out.ok
    /\ \A leaf \in LeafPaths(d, <<>>) :
            /\ JoinPath(leaf[1]) \in DOMAIN out.flat
            /\ out.flat[JoinPath(leaf[1])] = leaf[2]
    /\ Cardinality(DOMAIN out.flat) = Cardinality(LeafPaths(d, <<>>))
    /\ Renested(out.flat) = LeafPaths(d, <<>>)

\* Every key is non-empty and holds neither '_' nor '#attributes', and no
\* leaf is a list.
PlainMapping(d) ==
    /\ \A key \in AllKeys(d) :
            key # "" /\ ~Contains(key, "_") /\ ~Contains(key, "#attributes")
    /\ \A leaf \in LeafPaths(d, <<>>) : leaf[2].t # "list"

\* C10 as stated: flatten_dict preserves the leaves of every nested mapping
\* without XML strings: each under the '_'-joined path of its keys, as many
\* entries as leaves, and re-nesting along '_' gives the leaves back.
C10_EveryMapping == fpc = "flat" => LeavesPreserved(fin, fout)

\* C10: flatten_dict preserves the leaves of every nested mapping without
\* XML strings whose keys are non-empty and hold neither '_' nor
\* '#attributes' and whose leaves are not lists: each leaf under the
\* '_'-joined path of its keys, as many entries as leaves, and re-nesting
\* along '_' gives the leaves back.
C10_PlainMapping == (fpc = "flat" /\ PlainMapping(fin)) => LeavesPreserved(fin, fout)

\* A plain mapping with two leaves, one of them nested, was flattened.
C10_Witness ==
    /\ fpc = "flat"
    /\ PlainMapping(fin)
    /\ Cardinality(LeafPaths(fin, <<>>)) = 2
    /\ \E leaf \in LeafPaths(fin, <<>>) : Len(leaf[1]) = 2
    /\ Cardinality(DOMAIN fout.flat) = 2

(***************************************************************************)
(* String fields that hold XML                                             *)
(***************************************************************************)

\* The XML field filed under key was decoded: the string is kept under
\* '<key>_raw' and the decoded structure under keys that begin '<key>_parsed'.
Decoded(flat, key, text) ==
    /\ (key \o "_raw") \in DOMAIN flat
    /\ flat[key \o "_raw"] = text
    /\ \E k \in DOMAIN flat : StartsWith(k, key \o "_parsed")

\* The XML field was not decoded: the string is kept under '<key>'.
KeptLiteral(flat, key, text) == key \in DOMAIN flat /\ flat[key] = text

\* C11: flatten_dict raises on no string field that looks like XML, and
\* files each either decoded, under '<key>_raw' and '<key>_parsed...', or
\* as the literal string under '<key>'.
C11_XmlNeverRaises ==
    fpc = "flat" =>
        /\ fout.ok
        /\ \A leaf \in LeafPaths(fin, <<>>) :
                is_xml_content(leaf[2]) =>
                    \/ Decoded(fout.flat, FlatKey(leaf[1]), leaf[2])
                    \/ KeptLiteral(fout.flat, FlatKey(leaf[1]), leaf[2])

\* The string, trimmed, opens like a tag but does not close like one and
\* is no XML declaration.
OpenOnly(text) ==
    /\ StartsWith(Strip(text), "<")
    /\ ~EndsWith(Strip(text), ">")
    /\ ~StartsWith(Strip(text), "<?xml")

\* C25: of the values flatten_dict meets, is_xml_content takes for XML no
\* value that is not a string and no string that only opens like a tag,
\* and takes for XML every string that starts with '<?xml'.
C25_Classification ==
    fpc = "flat" =>
        \A leaf \in LeafPaths(fin, <<>>) :
            LET value == leaf[2] IN
            /\ value.t # "str" => ~is_xml_content(value)
            /\ (value.t = "str" /\ OpenOnly(value.s)) => ~is_xml_content(value)
            /\ (value.t = "str" /\ StartsWith(Strip(value.s), "<?xml"))
                    => is_xml_content(value)

\* A mapping with the string '<d' next to a list was flattened, and the
\* string was filed as it is.
C25_Witness ==
    /\ fpc = "flat"
    /\ fout.ok
    /\ \E leaf \in LeafPaths(fin, <<>>) :
            /\ leaf[2] = Str("<d")
            /\ KeptLiteral(fout.flat, FlatKey(leaf[1]), leaf[2])
    /\ \E leaf \in LeafPaths(fin, <<>>) : leaf[2].t = "list"

\* The document ET.fromstring reads from the string parse_xml_string hands
\* it.
DecodedRoot(text) ==
    fromstring(Replace(Replace(text, "\\r\\n", ""), "\r\n", ""))

\* Every attribute value, the non-blank text and every child of the element
\* can be read from the mapping m built for it.
Retrievable(element, m) ==
    /\ \A i \in DOMAIN element.attrs :
            /\ m.t = "dict"
            /\ HasKey(m.kids, "attr_" \o local_name(element.attrs[i][1]))
            /\ Lookup(m.kids, "attr_" \o local_name(element.attrs[i][1]))
                    = Str(element.attrs[i][2])
    /\ Strip(element.text) # "" =>
            \/ m = Str(Strip(element.text))
            \/ /\ m.t = "dict"
               /\ HasKey(m.kids, "text")
               /\ Lookup(m.kids, "text") = Str(Strip(element.text))
    /\ \A i \in DOMAIN element.kids :
            LET child_data == element_to_dict(element.kids[i])
                tag == local_name(element.kids[i].tag)
            IN  /\ m.t = "dict"
                /\ HasKey(m.kids, tag)
                /\ \/ Lookup(m.kids, tag) = child_data
                   \/ /\ Lookup(m.kids, tag).t = "list"
                      /\ \E n \in DOMAIN Lookup(m.kids, tag).kids :
                            Lookup(m.kids, tag).kids[n].v = child_data

\* C28: in the mapping parse_xml_string builds for the root element of an
\* XML field, the attributes under 'attr_<name>', the text under 'text'
\* and the children under their tags do not overwrite one another: each
\* attribute value, the non-blank text and each child can be read from it.
C28_NoOverwrite ==
    fpc = "flat" =>
        \A leaf \in LeafPaths(fin, <<>>) :
            (is_xml_content(leaf[2]) /\ DecodedRoot(leaf[2].s) # None) =>
                Retrievable(DecodedRoot(leaf[2].s)[1], parse_xml_string(leaf[2].s))

(***************************************************************************)
(* The values of a flat record                                             *)
(***************************************************************************)

Scalars == {"str", "num", "bool", "null"}

\* C12: every value of a record flatten_dict returns is a string, a number,
\* a boolean or null, a list of the input being there as its JSON text; no
\* mapping and no list remains, decoded XML structures included.
C12_ScalarValues ==
    (fpc = "flat" /\ fout.ok) =>
        /\ \A key \in DOMAIN fout.flat : fout.flat[key].t \in Scalars
        /\ \A leaf \in LeafPaths(fin, <<>>) :
                leaf[2].t = "list" =>
                    /\ FlatKey(leaf[1]) \in DOMAIN fout.flat
                    /\ fout.flat[FlatKey(leaf[1])] = Str(json_dumps(leaf[2]))

\* A mapping with a list and an XML field whose document repeats a child
\* was flattened: both lists are there as JSON text.
C12_Witness ==
    /\ fpc = "flat"
    /\ fout.ok
    /\ fin = Dict(<<KV("Data", Dict(<<KV("Xml", Str("<d n=\"1\"><i>x</i><i>y</i></d>")),
                                      KV("b", List(<<KV("", Num("1")), KV("", Str("x"))>>))>>))>>)
    /\ fout.flat["Data_Xml_parsed_i"] = Str("[\"x\", \"y\"]")
    /\ fout.flat["Data_b"] = Str("[1, \"x\"]")

(***************************************************************************)
(* The fields the shaper adds                                              *)
(***************************************************************************)

\* C13: every document made for the timesketch backend, by any parser,
\* holds 'datetime', 'message' and 'timestamp_desc'.
C13_TimesketchFields ==
    (platform = "timesketch" /\ lastdoc[1] = "doc") =>
        {"datetime", "message", "timestamp_desc"} \subseteq DOMAIN lastdoc[2]

\* C14: every document, of the event-log parser too, holds 'source_file',
\* 'log_type' and 'parser'.
C14_Provenance ==
    lastdoc[1] = "doc" =>
        {"source_file", "log_type", "parser"} \subseteq DOMAIN lastdoc[2]

\* C15: every column of the sanitized row is in the document with the value
\* read from the CSV.
C15_DataFieldsKept ==
    CsvDocument =>
        \A key \in DOMAIN SanitizedRows[parser][lastrow] :
            /\ key \in DOMAIN lastdoc[2]
            /\ lastdoc[2][key] = SanitizedRows[parser][lastrow][key]

(***************************************************************************)
(* The ways parse_file ends                                                *)
(***************************************************************************)

ToolFailures == {"error", "timeout", "notfound"}

\* C16: when the invocation of the external tool fails, the first or the
\* registry parser's second one, parse_file returns False and does not
\* raise.
C16_ToolFailureReturnsFalse ==
    tool \in ToolFailures => (pc = "done" /\ result = "false")

\* C17: when parse_file ends with no record extracted from the tool's
\* output, it has returned False and has written no output file.
C17_NoRecordsNoOutput ==
    (pc = "done" /\ tool = "ok" /\ entries = <<>>) =>
        (result = "false" /\ output = Absent)

\* TRUE iff the line is a JSON object.
WellFormed(line) == line.kind = "json" /\ line.v.t = "dict"

\* C18: each line of the tool's output the event-log parser reads either is
\* no JSON object and is skipped, or is one and adds one document; reading
\* a line never raises.
C18_LinesCounted ==
    [][(parser = "evtx" /\ nread' = nread + 1) =>
            /\ pc' = "reading"
            /\ Len(entries') = Len(entries) + (IF WellFormed(lastrow') THEN 1 ELSE 0)]_vars

\* C20: when parse_file of a CSV-based parser has ended, by a return or by
\* an exception, the directory of the tool's CSVs does not exist.
C20_TempDirRemoved ==
    (parser \in CsvParsers /\ pc \in {"done", "raised"}) => tempdir # "exists"

\* C22: no parse_file waits for its tool without limit, whatever the tool
\* does, and after a timeout of the tool parse_file ends without having run
\* the tool again or read anything.
C22_BoundedInvocation ==
    /\ pc # "blocked"
    /\ tool = "timeout" => (pc \in {"done", "raised"} /\ nread = 0)

(***************************************************************************)
(* A run over several files                                                *)
(***************************************************************************)

\* C19: a run ends only when every file found was passed to its parser; no
\* exception of a parse_file call ends it before.
C19_RunContinues ==
    rpc \in {"aborted", "finished"} => (rpc = "finished" /\ fnext = Len(files) + 1)

\* The outcomes ParseOutcomes gives each parser are those parse_file has.
ParseOutcomesOfParseFile ==
    /\ pc = "raised" => "raised" \in ParseOutcomes(parser)
    /\ (pc = "done" /\ result = "true") => "true" \in ParseOutcomes(parser)
    /\ (pc = "done" /\ result = "false") => "false" \in ParseOutcomes(parser)

(***************************************************************************)
(* Consecutive registry hives                                              *)
(***************************************************************************)

\* C21: the rows parse_file reads for a hive come from the CSV RECmd wrote
\* for that hive; no CSV an earlier call left in the directory is read.
C21_OwnRowsOnly == regread \subseteq {regnext - 1}

(***************************************************************************)
(* Output files of a parsing section                                       *)
(***************************************************************************)

\* C23: a parsing section writes each output path at most once: no two
\* successful parse_file calls of the section were given the same output.
C23_WrittenOnce ==
    \A i \in DOMAIN written, j \in DOMAIN written :
        i # j => written[i] # written[j]

(***************************************************************************)
(* The cleanup commands                                                    *)
(***************************************************************************)

\* C26: a cleanup command given with --dry-run deletes nothing: no file,
\* no folder, no index and no index pattern.
C26_DryRunDeletesNothing ==
    (dry_run /\ command \in {"clean_logs", "clean_case", "clean_case_indices",
                              "clean_all_indices"}) => deleted = {}

\* C30: the indices clean_case_indices_elk deletes for a case are indices
\* ingest_json_files names for that case, '<sanitized case name>_<file
\* name>'; no index of another case is among them.
C30_OwnIndicesOnly ==
    command \in {"clean_case", "clean_case_indices"} =>
        \A d \in deleted :
            d[1] = "index" =>
                /\ StartsWith(d[2], sanitize_index_name(target) \o "_")
                /\ \A other \in CaseNames \ {target}, f \in JsonBasenames :
                        d[2] # index_name(other, f)

(***************************************************************************)
(* The removal of the temporary directory                                  *)
(***************************************************************************)

\* C27: safe_rmtree makes at most max_attempts attempts; it returns True
\* at the first attempt that finds the directory absent or removes it, and
\* False exactly when max_attempts attempts raised (none if max_attempts is
\* 0); it has waited once after every failed attempt but the last of
\* max_attempts; and parse_file returns what its return statement said.
C27_SafeRmtree ==
    /\ failed_attempts <= max_attempts
    /\ attempt = failed_attempts \/ (rmtree_result = "false" /\ attempt = failed_attempts - 1)
    /\ outcome \in {"absent", "removed"} <=> rmtree_result = "true"
    /\ rmtree_result = "true" =>
            (failed_attempts < max_attempts /\ sleeps = failed_attempts /\ ~temp_exists)
    /\ rmtree_result = "none" => sleeps = failed_attempts
    /\ rmtree_result = "false" =>
            /\ failed_attempts = max_attempts
            /\ sleeps = (IF max_attempts = 0 THEN 0 ELSE max_attempts - 1)
    /\ failed_attempts = max_attempts => rmtree_result = "false" \/ max_attempts = 0
    /\ pf_result # "none" => (rmtree_result # "none" /\ pf_result = pf_return)

\* Five attempts raised: safe_rmtree waited four times and returned False,
\* and parse_file returned True all the same.
C27_Witness ==
    /\ max_attempts = 5
    /\ failed_attempts = 5
    /\ sleeps = 4
    /\ rmtree_result = "false"
    /\ pf_return = "true"
    /\ pf_result = "true"

(***************************************************************************)
(* Organized files                                                         *)
(***************************************************************************)

\* No copy or move of organize_files went to a path that existed just
\* before it.
NeverClobbers == ~clobbered

\* In copy mode every file that was found is still in its place.
CopyKeepsSources ==
    (copy_mode /\ orgpc \in {"loop", "done"}) =>
        \A t \in DOMAIN files_by_type :
            \A i \in DOMAIN files_by_type[t] : files_by_type[t][i] \in disk

\* The destination folders hold as many files more than before the call
\* as were organized with success.
DestinationGrowth ==
    orgpc \in {"loop", "done"} =>
        Cardinality(InDest(disk)) = Cardinality(InDest(disk_before)) + total_organized

\* C29: organize_files copies or moves each file to a path that did not
\* exist just before, so that the destination folders hold one file more
\* for each file organized with success, and in copy mode every source
\* file still exists afterwards.
C29_NoOverwrite == NeverClobbers /\ DestinationGrowth /\ CopyKeepsSources

====
